---- MODULE Spec2Model ----
(***************************************************************************)
(* Talkers Cave: the turn-taking dialogue game of                          *)
(* src/components/TalkersCaveGame.tsx, mounted by the App of               *)
(* src/unnamed/part_000.                                                   *)
(*                                                                         *)
(* One action is one browser task: an event handler (click, recognizer     *)
(* event, timer, utterance callback, resolved AI call) together with the   *)
(* React re-render and the effects that re-render runs.  Text is a         *)
(* sequence of one-character strings, so that trim, toLowerCase, replace   *)
(* and split are computed, not assumed.                                    *)
(***************************************************************************)
EXTENDS Integers, Sequences, FiniteSets, TLC

\* ---------------------------------------------------------------- bounds
\* attempts with a wrong transcript counted per practice word, for the
\* history variable failedAttempts (the code keeps no such count)
MaxFailedAttempts == 2

\* ------------------------------------------------------- program constants
\* parsedScript.length === 8
ScriptLength == 8

Null == "null"
NoTimer == 0 - 1

\* ------------------------------------------------------------------- text
\* the white space String.prototype.trim removes: here the space and the tab
IsWhiteSpace(c) == c \in {" ", "\t"}

\* the separator of split(' ')
IsSpace(c) == c = " "

RECURSIVE TrimLeft(_)
TrimLeft(s) ==
    IF s = <<>> THEN <<>>
    ELSE IF IsWhiteSpace(Head(s)) THEN TrimLeft(Tail(s)) ELSE s

RECURSIVE TrimRight(_)
TrimRight(s) ==
    IF s = <<>> THEN <<>>
    ELSE IF IsWhiteSpace(s[Len(s)]) THEN TrimRight(SubSeq(s, 1, Len(s) - 1)) ELSE s

\* String.prototype.trim
Trim(s) == TrimRight(TrimLeft(s))

LowerChar(c) ==
    CASE c = "A" -> "a"
      [] c = "B" -> "b"
      [] OTHER -> c

\* String.prototype.toLowerCase
ToLowerCase(s) == [i \in 1..Len(s) |-> LowerChar(s[i])]

\* the character class [.,?!] of cleanWord
CleanedPunct == {".", ",", "?", "!"}

RECURSIVE RemoveChars(_, _)
RemoveChars(s, cs) ==
    IF s = <<>> THEN <<>>
    ELSE IF Head(s) \in cs THEN RemoveChars(Tail(s), cs)
    ELSE <<Head(s)>> \o RemoveChars(Tail(s), cs)

cleanWord_KeepCase(word) == RemoveChars(Trim(word), CleanedPunct)

\* const cleanWord = (word) => word.trim().toLowerCase().replace(/[.,?!]/g, '')
cleanWord(word) == RemoveChars(ToLowerCase(Trim(word)), CleanedPunct)

\* String.prototype.split(' '): the pieces between single spaces, empty ones kept
RECURSIVE SplitAcc(_, _, _)
SplitAcc(s, cur, acc) ==
    IF s = <<>> THEN Append(acc, cur)
    ELSE IF IsSpace(Head(s)) THEN SplitAcc(Tail(s), <<>>, Append(acc, cur))
    ELSE SplitAcc(Tail(s), Append(cur, Head(s)), acc)

Split(s) == SplitAcc(s, <<>>, <<>>)

\* Array.prototype.filter(Boolean) on strings: the empty string is falsy
RECURSIVE FilterBoolean(_)
FilterBoolean(ws) ==
    IF ws = <<>> THEN <<>>
    ELSE IF Head(ws) = <<>> THEN FilterBoolean(Tail(ws))
    ELSE <<Head(ws)>> \o FilterBoolean(Tail(ws))

Range(f) == {f[i] : i \in DOMAIN f}

\* [...new Set(xs)]: first occurrences, in order
RECURSIVE UniqueAcc(_, _)
UniqueAcc(xs, acc) ==
    IF xs = <<>> THEN acc
    ELSE IF Head(xs) \in Range(acc) THEN UniqueAcc(Tail(xs), acc)
    ELSE UniqueAcc(Tail(xs), Append(acc, Head(xs)))

Unique_KeepAll(xs) == xs

Unique(xs) == UniqueAcc(xs, <<>>)

\* ------------------------------------------------------------------ inputs
\* TALKERS_CAVE_SCENES: scene name -> its two characters (left, right)
TALKERS_CAVE_SCENES ==
    [s \in {"Shopkeeper and Customer", "Teacher and Student"} |->
        IF s = "Shopkeeper and Customer" THEN <<"Shopkeeper", "Customer">>
        ELSE <<"Teacher", "Student">>]

Scenes == DOMAIN TALKERS_CAVE_SCENES

Line(c, l) == [character |-> c, line |-> l]

\* an 8-line script the AI service returns; its characters are those of the
\* first scene and a third speaker: the Shopkeeper has the first and the last
\* line, the Customer the third.  The first line is blank and the
\* Customer's line has a tab between its words.
GoodScript ==
    << Line("Shopkeeper", <<" ">>),
       Line("Narrator",   <<"a", " ", "b", ".">>),
       Line("Customer",   <<"A", "\t", "a">>),
       Line("Narrator",   <<"b", ".">>),
       Line("Narrator",   <<"a", " ", "a">>),
       Line("Narrator",   <<"b", ".", " ", "a">>),
       Line("Narrator",   <<"A", " ", "a">>),
       Line("Shopkeeper", <<"a", " ", " ", "A">>) >>

Item(l) == [kind |-> "object", has |-> {"character", "line"},
            character |-> l.character, line |-> l.line]

GoodItems == [i \in 1..Len(GoodScript) |-> Item(GoodScript[i])]

Without(items, i, field) ==
    [items EXCEPT ![i] = [@ EXCEPT !.has = @ \ {field}]]

ArrayReply(items) == [kind |-> "array", items |-> items]

\* what the script-generation call can come back with
ScriptReplies ==
    { [kind |-> "throw", items |-> <<>>],        \* generateContent rejects
      [kind |-> "unparseable", items |-> <<>>],  \* extractJson returns null
      [kind |-> "object", items |-> <<>>],       \* JSON, but not an array
      ArrayReply(GoodItems),
      ArrayReply(SubSeq(GoodItems, 1, Len(GoodItems) - 1)),
      ArrayReply(Append(GoodItems, GoodItems[1])),
      ArrayReply(Without(GoodItems, 3, "line")),
      ArrayReply(Without(GoodItems, 8, "character")),
      ArrayReply([GoodItems EXCEPT ![2] = [@ EXCEPT !.kind = "primitive", !.has = {}]]) }

NoReply == [kind |-> "none", items |-> <<>>]

\* full transcripts the game recognizer reports in result events
GameTranscripts == { <<" ">>, <<"a", " ">> }

\* what the transcript-comparison call can come back with: rejected or
\* malformed, or an array of strings
AnalysisReplies ==
    { [ok |-> FALSE, words |-> <<>>],
      [ok |-> TRUE,  words |-> <<>>],
      [ok |-> TRUE,  words |-> << <<"a">>, <<"a">> >>],
      [ok |-> TRUE,  words |-> << <<"a">>, <<>> >>] }

\* what the phonetic-breakdown call can come back with
PhoneticReplies ==
    { [ok |-> FALSE, syllables |-> <<>>],
      [ok |-> TRUE,  syllables |-> <<>>],
      [ok |-> TRUE,  syllables |-> << <<"a">>, <<"h">> >>] }

\* transcripts the practice recognizer reports
PracticeTranscripts == { <<" ">>, <<" ", "A", ".">>, <<"a", ";">> }

\* error codes of SpeechRecognitionErrorEvent
RecognitionErrors ==
    {"no-speech", "aborted", "not-allowed", "service-not-allowed", "network"}

\* ------------------------------------------------------------------- state
VARIABLES
    \* useState of TalkersCaveGame
    step, selectedScene, selectedCharacter, script, error, currentTurn,
    isAiSpeaking, voices, isRecognitionActive, recognitionError, mistakes,
    isAnalyzing, userDialog, userTranscript, practiceWords,
    currentPracticeWordIndex, practiceStatus, practiceTranscript,
    \* useRef of TalkersCaveGame, and the transcriptRef of the recognizer effect
    hasProcessedTurn, wasStoppedIntentionally, practiceAttemptResult, transcriptRef,
    \* the browser: capabilities and the two recognizers
    speechRecognizer, speechSynthesis, gameRec, pracRec,
    \* work in flight
    scriptCall, aiTimer, fallbackTimers, utterance, cancelledUtterances,
    analysis, prep, successTimers,
    \* the App: whether the game is on the screen, and the onComplete calls the
    \* App got since the grade was chosen
    mounted, onCompleteCalls,
    \* useState of App, and whether a permission query is in flight
    userGrade, selectedLanguage, micPermissionGranted, currentLevel, gameKey,
    isFinished, permissionQuery,
    \* history
    scriptReply, userStopped, pracLog, failedAttempts,
    \* a response text of the AI and what extractJson made of it
    responseText, extracted

reactVars == <<step, selectedScene, selectedCharacter, script, error, currentTurn,
               isAiSpeaking, voices, isRecognitionActive, recognitionError, mistakes,
               isAnalyzing, userDialog, userTranscript, practiceWords,
               currentPracticeWordIndex, practiceStatus, practiceTranscript>>
refVars == <<hasProcessedTurn, wasStoppedIntentionally, practiceAttemptResult, transcriptRef>>
envVars == <<speechRecognizer, speechSynthesis, gameRec, pracRec>>
flightVars == <<scriptCall, aiTimer, fallbackTimers, utterance, cancelledUtterances,
                analysis, prep, successTimers>>
appState == <<userGrade, selectedLanguage, micPermissionGranted, currentLevel, gameKey,
              isFinished, permissionQuery>>
appVars == <<mounted, onCompleteCalls, appState>>
extractVars == <<responseText, extracted>>
histVars == <<scriptReply, userStopped, pracLog, failedAttempts, extractVars>>

vars == <<reactVars, refVars, envVars, flightVars, appVars, histVars>>

Turns == 0..(ScriptLength - 1)

NoUtterance == [turn |-> NoTimer, started |-> FALSE]
NoCall == [scene |-> Null, character |-> Null]

NotSupported_Unset == Null

\* the message of the effect that runs when there is no recognizer
NotSupported == "Speech recognition is not supported in this browser. Try Chrome or Edge."

\* the state after the first render and its effects
\* ------------------------------------------------------------- extractJson
\* A text is a sequence of these pieces: the fence ```, the word json (prose
\* where it does not follow a fence), white space, the brackets and braces,
\* and a number.
Fence == "FENCE"
TextPieces == {Fence, "json", " ", "[", "]", "{", "}", "1"}

Min(a, b) == IF a < b THEN a ELSE b
Max(a, b) == IF a > b THEN a ELSE b

\* the text without its white space
RECURSIVE Unspaced(_)
Unspaced(s) ==
    IF s = <<>> THEN <<>>
    ELSE IF IsWhiteSpace(Head(s)) THEN Unspaced(Tail(s))
         ELSE <<Head(s)>> \o Unspaced(Tail(s))

\* the pieces form one JSON value: a number, {} or an array of one value or none
RECURSIVE IsJsonValue(_)
IsJsonValue(s) ==
    \/ s = <<"1">>
    \/ s = <<"{", "}">>
    \/ /\ Len(s) >= 2
       /\ s[1] = "["
       /\ s[Len(s)] = "]"
       /\ Len(s) = 2 \/ IsJsonValue(SubSeq(s, 2, Len(s) - 1))

\* JSON.parse: the value, written without white space, or a SyntaxError
JSONparse(jsonStr) ==
    IF IsJsonValue(Unspaced(jsonStr))
    THEN [threw |-> FALSE, value |-> Unspaced(jsonStr)]
    ELSE [threw |-> TRUE, value |-> <<>>]

\* String.prototype.indexOf and lastIndexOf, counting from 0; -1: not found
RECURSIVE indexOf(_, _)
indexOf(s, c) ==
    IF s = <<>> THEN -1
    ELSE IF Head(s) = c THEN 0
         ELSE IF indexOf(Tail(s), c) = -1 THEN -1 ELSE 1 + indexOf(Tail(s), c)

RECURSIVE lastIndexOf(_, _)
lastIndexOf(s, c) ==
    IF s = <<>> THEN -1
    ELSE IF s[Len(s)] = c THEN Len(s) - 1
         ELSE lastIndexOf(SubSeq(s, 1, Len(s) - 1), c)

\* String.prototype.substring(from, to), counting from 0
substring(s, from, to) == SubSeq(s, from + 1, to)

\* the group of /```(?:json)?\s*([\s\S]*?)\s*```/ at its first match;
\* matched: the text has a fence and a later one that closes it
fenceMatch(jsonStr) ==
    LET open == indexOf(jsonStr, Fence)
        rest == IF open = -1 THEN <<>> ELSE SubSeq(jsonStr, open + 2, Len(jsonStr))
        close == indexOf(rest, Fence)
        between == IF close = -1 THEN <<>> ELSE SubSeq(rest, 1, close)
        untagged == IF between # <<>> /\ Head(between) = "json"
                    THEN Tail(between) ELSE between
    IN  [matched |-> open # -1 /\ close # -1, group |-> Trim(untagged)]

\* the else branch of extractJson: the span from the first [ or { to the last
\* ] or }, or the text itself
BracketSpan(jsonStr) ==
    LET firstBracket == indexOf(jsonStr, "[")
        lastBracket == lastIndexOf(jsonStr, "]")
        firstBrace == indexOf(jsonStr, "{")
        lastBrace == lastIndexOf(jsonStr, "}")
        start == IF firstBracket # -1 /\ firstBrace # -1
                 THEN Min(firstBracket, firstBrace)
                 ELSE IF firstBracket # -1 THEN firstBracket ELSE firstBrace
        end == IF lastBracket # -1 /\ lastBrace # -1
               THEN Max(lastBracket, lastBrace)
               ELSE IF lastBracket # -1 THEN lastBracket ELSE lastBrace
    IN  IF start # -1 /\ end > start THEN substring(jsonStr, start, end + 1)
        ELSE jsonStr

\* what extractJson hands to JSON.parse
JsonStr(text) ==
    LET jsonStr == Trim(text)
        m == fenceMatch(jsonStr)
    IN  IF m.matched /\ m.group # <<>> THEN Trim(m.group) ELSE BracketSpan(jsonStr)

\* how a call ended: it threw, or returned null, or returned a value
Returned(value) == [threw |-> FALSE, isNull |-> FALSE, value |-> value]
ReturnedNull == [threw |-> FALSE, isNull |-> TRUE, value |-> <<>>]
Threw == [threw |-> TRUE, isNull |-> FALSE, value |-> <<>>]
NotCalled == [threw |-> FALSE, isNull |-> FALSE, value |-> <<"not called">>]

extractJson_NoCatch(text) ==
    LET parsed == JSONparse(JsonStr(text))
    IN  IF parsed.threw THEN Threw ELSE Returned(parsed.value)

\* extractJson: the catch turns every exception of the try block into null
extractJson(text) ==
    LET parsed == JSONparse(JsonStr(text))
    IN  IF parsed.threw THEN ReturnedNull ELSE Returned(parsed.value)

\* no response text is at hand
NoResponse == responseText = <<>> /\ extracted = NotCalled

\* ------------------------------------------------------------ initial state
Init ==
    /\ NoResponse
    /\ step = "SCENE"
    /\ selectedScene = Null
    /\ selectedCharacter = Null
    /\ script = <<>>
    /\ error = Null
    /\ currentTurn = 0
    /\ isAiSpeaking = FALSE
    /\ speechSynthesis \in BOOLEAN
    /\ voices \in (IF speechSynthesis THEN {0, 1} ELSE {0})
    /\ isRecognitionActive = FALSE
    /\ speechRecognizer \in BOOLEAN
    /\ recognitionError = (IF speechRecognizer THEN Null ELSE NotSupported)
    /\ mistakes = <<>>
    /\ isAnalyzing = FALSE
    /\ userDialog = <<>>
    /\ userTranscript = <<>>
    /\ practiceWords = <<>>
    /\ currentPracticeWordIndex = 0
    /\ practiceStatus = "IDLE"
    /\ practiceTranscript = <<>>
    /\ hasProcessedTurn = FALSE
    /\ wasStoppedIntentionally = FALSE
    /\ practiceAttemptResult = Null
    /\ transcriptRef = <<>>
    /\ gameRec = "idle"
    /\ pracRec = "idle"
    /\ scriptCall = NoCall
    /\ aiTimer = NoTimer
    /\ fallbackTimers = [t \in Turns |-> 0]
    /\ utterance = NoUtterance
    /\ cancelledUtterances = [t \in Turns |-> 0]
    /\ analysis = <<>>
    /\ prep = <<>>
    /\ successTimers = <<>>
    /\ mounted = TRUE
    /\ onCompleteCalls = 0
    /\ userGrade = 1
    /\ selectedLanguage = "en"
    /\ micPermissionGranted = TRUE
    /\ currentLevel = 1
    /\ gameKey = 0
    /\ isFinished = FALSE
    /\ permissionQuery = FALSE
    /\ scriptReply = NoReply
    /\ userStopped = FALSE
    /\ pracLog = <<>>
    /\ failedAttempts = 0

\* ----------------------------------------------------------------- effects
IsUserTurn(scr, turn, character) == scr[turn + 1].character = character

\* SpeechRecognition.stop(): a running session is asked to finish
RecStop(r) == IF r \in {"starting", "active"} THEN "stopping" ELSE r

\* SpeechRecognition.abort(): a running session ends without a result
RecAbort(r) == IF r = "idle" THEN "idle" ELSE "ending"

\* the recognizer handlers of the GAME effect are attached
HandlersAttached == mounted /\ speechRecognizer /\ step = "GAME"

AiTurnDue_IgnoreError(st, scr, turn, character, err, speaking) ==
    /\ st = "GAME" /\ Len(scr) # 0 /\ turn < Len(scr) /\ ~speaking
    /\ ~IsUserTurn(scr, turn, character)

\* the AI-turn effect passes its guard and the line is not the user's
AiTurnDue(st, scr, turn, character, err, speaking) ==
    /\ st = "GAME" /\ Len(scr) # 0 /\ turn < Len(scr) /\ err = Null /\ ~speaking
    /\ ~IsUserTurn(scr, turn, character)

\* The AI-turn effect after a render: when one of its dependencies changed,
\* the previous run's timer is cleared, and for an AI turn the recognizer is
\* stopped and a 700 ms timer is set for speak().  rec is the recognizer
\* state the handler itself leaves.
AiTurnEffect(speakChanged, rec) ==
    LET changed == \/ step' # step \/ script' # script \/ currentTurn' # currentTurn
                   \/ selectedCharacter' # selectedCharacter
                   \/ recognitionError' # recognitionError
                   \/ isAiSpeaking' # isAiSpeaking \/ speakChanged
        due == AiTurnDue(step', script', currentTurn', selectedCharacter',
                         recognitionError', isAiSpeaking')
    IN  /\ aiTimer' = IF ~changed THEN aiTimer
                      ELSE IF due THEN currentTurn' ELSE NoTimer
        /\ gameRec' = IF changed /\ due /\ speechRecognizer THEN RecStop(rec) ELSE rec

\* GAME renders script[currentTurn].character: past the last line that throws
RenderThrows(st, scr, turn, character, scene) ==
    st = "GAME" /\ Len(scr) # 0 /\ character # Null /\ scene # Null /\ turn >= Len(scr)

\* speechSynthesis.cancel(): the utterance in the queue gets an error event
Cancelled(utt, canc) ==
    IF utt = NoUtterance THEN canc ELSE [canc EXCEPT ![utt.turn] = @ + 1]

\* ------------------------------------------------------------------ the App
\* userGrade when no grade is chosen: null, which fails the test !userGrade as 0 does
NoGrade == 0

\* the effect of App on [selectedLanguage, micPermissionGranted]: a permission
\* query is sent when a language is chosen and the microphone not yet granted
QueryEffect ==
    permissionQuery' =
        (\/ permissionQuery
         \/ /\ selectedLanguage' # Null /\ ~micPermissionGranted'
            /\ <<selectedLanguage', micPermissionGranted'>>
                  # <<selectedLanguage, micPermissionGranted>>)

handleSetGrade(grade) ==
    /\ userGrade' = grade
    /\ currentLevel' = 1
    /\ gameKey' = 0
    /\ isFinished' = FALSE
    /\ selectedLanguage' = Null
    /\ micPermissionGranted' = FALSE
    /\ QueryEffect

handleLanguageSelect(language) ==
    /\ selectedLanguage' = language
    /\ UNCHANGED <<userGrade, micPermissionGranted, currentLevel, gameKey, isFinished>>
    /\ QueryEffect

handleBackToGrades ==
    /\ userGrade' = NoGrade
    /\ selectedLanguage' = Null
    /\ micPermissionGranted' = FALSE
    /\ UNCHANGED <<currentLevel, gameKey, isFinished>>
    /\ QueryEffect

handleFinish_KeepLevel(success) ==
    /\ currentLevel' = currentLevel
    /\ isFinished' = TRUE
    /\ UNCHANGED <<userGrade, selectedLanguage, micPermissionGranted, gameKey,
                   permissionQuery>>

handleFinish(success) ==
    /\ currentLevel' = currentLevel + 1
    /\ isFinished' = TRUE
    /\ UNCHANGED <<userGrade, selectedLanguage, micPermissionGranted, gameKey,
                   permissionQuery>>

handlePlayAgain ==
    /\ isFinished' = FALSE
    /\ gameKey' = gameKey + 1
    /\ UNCHANGED <<userGrade, selectedLanguage, micPermissionGranted, currentLevel,
                   permissionQuery>>

handlePermissionGranted ==
    /\ micPermissionGranted' = TRUE
    /\ UNCHANGED <<userGrade, selectedLanguage, currentLevel, gameKey, isFinished>>
    /\ QueryEffect

Teardown_NoAbort(rec, utt, canc) ==
    /\ mounted' = FALSE
    /\ aiTimer' = NoTimer
    /\ utterance' = IF speechSynthesis THEN NoUtterance ELSE utt
    /\ cancelledUtterances' = IF speechSynthesis THEN Cancelled(utt, canc) ELSE canc
    /\ gameRec' = rec
    /\ pracRec' = pracRec

\* the cleanups React runs when the game is unmounted; rec, utt and canc are
\* what the handler itself leaves
Teardown(rec, utt, canc) ==
    /\ mounted' = FALSE
    /\ aiTimer' = NoTimer
    /\ utterance' = IF speechSynthesis THEN NoUtterance ELSE utt
    /\ cancelledUtterances' = IF speechSynthesis THEN Cancelled(utt, canc) ELSE canc
    /\ gameRec' = IF speechRecognizer THEN RecAbort(rec) ELSE rec
    /\ pracRec' = IF speechRecognizer THEN RecAbort(pracRec) ELSE pracRec

\* the state and the refs of an unmounted component are gone: they read as
\* in a component not yet used, and so does the history kept about it
Discard ==
    /\ step' = "SCENE"
    /\ selectedScene' = Null
    /\ selectedCharacter' = Null
    /\ script' = <<>>
    /\ error' = Null
    /\ currentTurn' = 0
    /\ isAiSpeaking' = FALSE
    /\ voices' = 0
    /\ isRecognitionActive' = FALSE
    /\ recognitionError' = Null
    /\ mistakes' = <<>>
    /\ isAnalyzing' = FALSE
    /\ userDialog' = <<>>
    /\ userTranscript' = <<>>
    /\ practiceWords' = <<>>
    /\ currentPracticeWordIndex' = 0
    /\ practiceStatus' = "IDLE"
    /\ practiceTranscript' = <<>>
    /\ hasProcessedTurn' = FALSE
    /\ wasStoppedIntentionally' = FALSE
    /\ practiceAttemptResult' = Null
    /\ transcriptRef' = <<>>
    /\ scriptReply' = NoReply
    /\ userStopped' = FALSE
    /\ pracLog' = <<>>
    /\ UNCHANGED extractVars
    /\ failedAttempts' = 0

\* React unmounts the game: cleanups, and the component is gone
Unmount(rec, utt, canc) ==
    /\ Teardown(rec, utt, canc)
    /\ Discard

\* onComplete(true) reaches App.handleFinish: the level screen replaces the
\* game if it is still there
OnComplete ==
    /\ onCompleteCalls' = onCompleteCalls + 1
    /\ handleFinish(TRUE)
    /\ IF mounted THEN Unmount(gameRec, utterance, cancelledUtterances)
       ELSE UNCHANGED <<mounted, aiTimer, utterance, cancelledUtterances, gameRec,
                        pracRec, reactVars, refVars, histVars>>

\* ------------------------------------------------- scene, character, script
handleSceneSelect(scene) ==
    /\ mounted /\ step = "SCENE"
    /\ selectedScene' = scene
    /\ step' = "CHARACTER"
    /\ UNCHANGED <<selectedCharacter, script, error, currentTurn, isAiSpeaking, voices,
                   isRecognitionActive, recognitionError, mistakes, isAnalyzing,
                   userDialog, userTranscript, practiceWords, currentPracticeWordIndex,
                   practiceStatus, practiceTranscript>>
    /\ UNCHANGED <<refVars, envVars, flightVars, appVars, histVars>>

handleBackToScenes ==
    /\ mounted /\ step = "CHARACTER"
    /\ step' = "SCENE"
    /\ selectedCharacter' = Null
    /\ selectedScene' = Null
    /\ UNCHANGED <<script, error, currentTurn, isAiSpeaking, voices,
                   isRecognitionActive, recognitionError, mistakes, isAnalyzing,
                   userDialog, userTranscript, practiceWords, currentPracticeWordIndex,
                   practiceStatus, practiceTranscript>>
    /\ UNCHANGED <<refVars, envVars, flightVars, appVars, histVars>>

\* the 'Back to Grades' button of step SCENE: App.handleBackToGrades drops
\* the game
onBackToGrades ==
    /\ mounted /\ step = "SCENE"
    /\ handleBackToGrades
    /\ Unmount(gameRec, utterance, cancelledUtterances)
    /\ UNCHANGED <<speechRecognizer, speechSynthesis, scriptCall, fallbackTimers,
                   analysis, prep, successTimers, onCompleteCalls>>

handleCharacterSelect_NoScript(character) ==
    /\ mounted /\ step = "CHARACTER" /\ selectedScene # Null
    /\ character \in Range(TALKERS_CAVE_SCENES[selectedScene])
    /\ selectedCharacter' = character
    /\ UNCHANGED <<step, selectedScene, script, error, currentTurn, isAiSpeaking,
                   voices, isRecognitionActive, recognitionError, mistakes,
                   isAnalyzing, userDialog, userTranscript, practiceWords,
                   currentPracticeWordIndex, practiceStatus, practiceTranscript>>
    /\ UNCHANGED <<refVars, envVars, flightVars, appVars, histVars>>

\* handleCharacterSelect, and generateScript up to its await
handleCharacterSelect(character) ==
    /\ mounted /\ step = "CHARACTER" /\ selectedScene # Null
    /\ character \in Range(TALKERS_CAVE_SCENES[selectedScene])
    /\ mistakes' = <<>>
    /\ userDialog' = <<>>
    /\ selectedCharacter' = character
    /\ error' = Null
    /\ step' = "LOADING_SCRIPT"
    /\ scriptCall' = [scene |-> selectedScene, character |-> character]
    /\ UNCHANGED <<selectedScene, script, currentTurn, isAiSpeaking, voices,
                   isRecognitionActive, recognitionError, isAnalyzing,
                   userTranscript, practiceWords, currentPracticeWordIndex,
                   practiceStatus, practiceTranscript>>
    /\ UNCHANGED <<aiTimer, fallbackTimers, utterance, cancelledUtterances,
                   analysis, prep, successTimers>>
    /\ UNCHANGED <<refVars, envVars, appVars, histVars>>

InvalidFormat ==
    "Sorry, I couldn't create a script. Received invalid script format from API. Expected a JSON array of 8 script lines. Please try again."
CallRejected ==
    "Sorry, I couldn't create a script. The request failed. Please try again."
InOperatorThrew ==
    "Sorry, I couldn't create a script. Cannot use 'in' operator to search for 'character'. Please try again."

\* parsedScript.every(item => 'character' in item && 'line' in item): "ok",
\* "no" at the first item without a field, "throws" at the first primitive
RECURSIVE EveryHasFields(_)
EveryHasFields(items) ==
    IF items = <<>> THEN "ok"
    ELSE IF Head(items).kind = "primitive" THEN "throws"
    ELSE IF ~({"character", "line"} \subseteq Head(items).has) THEN "no"
    ELSE EveryHasFields(Tail(items))

ScriptOutcome_AnyLength(reply) ==
    CASE reply.kind = "throw" -> CallRejected
      [] reply.kind \in {"unparseable", "object"} -> InvalidFormat
      [] OTHER ->
           CASE EveryHasFields(reply.items) = "ok" -> "ok"
             [] EveryHasFields(reply.items) = "throws" -> InOperatorThrew
             [] OTHER -> InvalidFormat

ScriptOutcome_NoFieldCheck(reply) ==
    CASE reply.kind = "throw" -> CallRejected
      [] reply.kind \in {"unparseable", "object"} -> InvalidFormat
      [] OTHER -> IF Len(reply.items) # ScriptLength THEN InvalidFormat ELSE "ok"

\* the try block of generateScript after the await: "ok", or the error shown
ScriptOutcome(reply) ==
    CASE reply.kind = "throw" -> CallRejected
      [] reply.kind \in {"unparseable", "object"} -> InvalidFormat
      [] OTHER ->
           IF Len(reply.items) # ScriptLength THEN InvalidFormat
           ELSE CASE EveryHasFields(reply.items) = "ok" -> "ok"
                  [] EveryHasFields(reply.items) = "throws" -> InOperatorThrew
                  [] OTHER -> InvalidFormat

ParsedScript_Reversed(items) ==
    [i \in 1..Len(items) |->
        [character |-> items[Len(items) + 1 - i].character,
         line |-> items[Len(items) + 1 - i].line]]

\* the array as stored by setScript
ParsedScript(items) ==
    [i \in 1..Len(items) |->
        IF items[i].kind = "primitive" THEN [character |-> Null, line |-> <<>>]
        ELSE [character |-> IF "character" \in items[i].has THEN items[i].character ELSE Null,
              line |-> IF "line" \in items[i].has THEN items[i].line ELSE <<>>]]

FirstTurn_One == 0 + 1

\* setCurrentTurn(0) of generateScript
FirstTurn == 0

generateScriptReply_Retry(reply) ==
    /\ scriptCall # NoCall
    /\ scriptCall' = IF ScriptOutcome(reply) = "ok" THEN NoCall ELSE scriptCall
    /\ scriptReply' = reply
    /\ IF ScriptOutcome(reply) = "ok"
       THEN /\ script' = ParsedScript(reply.items)
            /\ step' = "GAME"
            /\ currentTurn' = FirstTurn
            /\ error' = error
            /\ transcriptRef' = <<>>
       ELSE /\ error' = ScriptOutcome(reply)
            /\ step' = "CHARACTER"
            /\ UNCHANGED <<script, currentTurn, transcriptRef>>
    /\ UNCHANGED <<selectedScene, selectedCharacter, isAiSpeaking, voices,
                   isRecognitionActive, recognitionError, mistakes, isAnalyzing,
                   userDialog, userTranscript, practiceWords, currentPracticeWordIndex,
                   practiceStatus, practiceTranscript>>
    /\ AiTurnEffect(FALSE, gameRec)
    /\ UNCHANGED <<hasProcessedTurn, wasStoppedIntentionally, practiceAttemptResult>>
    /\ UNCHANGED <<speechRecognizer, speechSynthesis, pracRec>>
    /\ UNCHANGED <<fallbackTimers, utterance, cancelledUtterances, analysis, prep,
                   successTimers>>
    /\ UNCHANGED <<appVars, userStopped, pracLog, failedAttempts, extractVars>>

\* generateScript from the resolution of generateContent on
generateScriptReply(reply) ==
    /\ scriptCall # NoCall
    /\ scriptCall' = NoCall
    /\ scriptReply' = reply
    /\ IF ScriptOutcome(reply) = "ok"
       THEN /\ script' = ParsedScript(reply.items)
            /\ step' = "GAME"
            /\ currentTurn' = FirstTurn
            /\ error' = error
            /\ transcriptRef' = <<>>
       ELSE /\ error' = ScriptOutcome(reply)
            /\ step' = "CHARACTER"
            /\ UNCHANGED <<script, currentTurn, transcriptRef>>
    /\ UNCHANGED <<selectedScene, selectedCharacter, isAiSpeaking, voices,
                   isRecognitionActive, recognitionError, mistakes, isAnalyzing,
                   userDialog, userTranscript, practiceWords, currentPracticeWordIndex,
                   practiceStatus, practiceTranscript>>
    /\ AiTurnEffect(FALSE, gameRec)
    /\ UNCHANGED <<hasProcessedTurn, wasStoppedIntentionally, practiceAttemptResult>>
    /\ UNCHANGED <<speechRecognizer, speechSynthesis, pracRec>>
    /\ UNCHANGED <<fallbackTimers, utterance, cancelledUtterances, analysis, prep,
                   successTimers>>
    /\ UNCHANGED <<appVars, userStopped, pracLog, failedAttempts, extractVars>>

\* ------------------------------------------------------ render and effects
\* What a GAME-phase handler commits: its state updates, then the effects of
\* the render: the AI-turn effect, and analyzeAllDialog on entering
\* ANALYZING_PERFORMANCE.  The handler leaves script, selectedCharacter and
\* selectedScene alone.
Commit(newStep, newTurn, newError, newSpeaking, speakChanged, rec, utt, canc) ==
    /\ step' = newStep
    /\ currentTurn' = newTurn
    /\ recognitionError' = newError
    /\ isAiSpeaking' = newSpeaking
    /\ mounted' = mounted
    /\ AiTurnEffect(speakChanged, rec)
    /\ utterance' = utt
    /\ cancelledUtterances' = canc
    /\ pracRec' = pracRec
    /\ IF newStep = "ANALYZING_PERFORMANCE" /\ step # "ANALYZING_PERFORMANCE"
       THEN /\ isAnalyzing' = TRUE
            /\ analysis' = Append(analysis, [idx |-> 1, words |-> <<>>])
       ELSE UNCHANGED <<isAnalyzing, analysis>>

\* what Commit does not assign and the speech handlers leave alone
speechFrame == <<selectedScene, selectedCharacter, script, error,
                 isRecognitionActive, mistakes, userDialog, userTranscript,
                 practiceWords, currentPracticeWordIndex, practiceStatus,
                 practiceTranscript, refVars, speechRecognizer, speechSynthesis,
                 scriptCall, prep, successTimers, onCompleteCalls, appState,
                 scriptReply, userStopped, pracLog, failedAttempts, extractVars>>

AiTurnEndStep_Always(t) == "ANALYZING_PERFORMANCE"

\* handleAiTurnEnd of the effect run for turn t: the step it sets
AiTurnEndStep(t) ==
    IF t < Len(script) - 1 THEN step ELSE "ANALYZING_PERFORMANCE"

AiTurnEndTurn_Skip(t) == IF t < Len(script) - 1 THEN currentTurn + 2 ELSE currentTurn

\* handleAiTurnEnd of the effect run for turn t: setCurrentTurn(prev => prev + 1)
AiTurnEndTurn(t) ==
    IF t < Len(script) - 1 THEN currentTurn + 1 ELSE currentTurn

\* a completion callback of turn t runs.  State updates of an unmounted
\* component are dropped; a render of GAME past the last line throws, and
\* React then unmounts the tree.
handleAiTurnEnd(t, newSpeaking, utt, canc) ==
    IF ~mounted
    THEN /\ utterance' = utt
         /\ cancelledUtterances' = canc
         /\ UNCHANGED <<speechFrame, voices>>
         /\ UNCHANGED <<step, currentTurn, recognitionError, isAiSpeaking, mounted,
                        aiTimer, gameRec, pracRec, isAnalyzing, analysis>>
    ELSE IF RenderThrows(AiTurnEndStep(t), script, AiTurnEndTurn(t),
                         selectedCharacter, selectedScene)
    THEN /\ Unmount(gameRec, utt, canc)
         /\ UNCHANGED <<speechRecognizer, speechSynthesis, scriptCall, prep,
                        successTimers, onCompleteCalls, appState, analysis>>
    ELSE /\ UNCHANGED <<speechFrame, voices>>
         /\ Commit(AiTurnEndStep(t), AiTurnEndTurn(t), recognitionError, newSpeaking,
                   FALSE, gameRec, utt, canc)

\* window.speechSynthesis.onvoiceschanged when the voice list arrives:
\* setVoices(getVoices()), so speak is a new function and the AI-turn effect
\* runs again
loadVoices ==
    /\ mounted /\ speechSynthesis
    /\ voices = 0
    /\ voices' = 1
    /\ UNCHANGED <<selectedScene, selectedCharacter, script, error,
                   isRecognitionActive, mistakes, userDialog, userTranscript,
                   practiceWords, currentPracticeWordIndex, practiceStatus,
                   practiceTranscript, refVars, speechRecognizer, speechSynthesis,
                   scriptCall, prep, successTimers, onCompleteCalls, appState,
                   scriptReply, userStopped, pracLog, failedAttempts,
                   extractVars, fallbackTimers>>
    /\ Commit(step, currentTurn, recognitionError, isAiSpeaking, TRUE,
              gameRec, utterance, cancelledUtterances)

speak_NeverFallback(t) ==
    /\ fallbackTimers' = fallbackTimers
    /\ utterance' = [turn |-> t, started |-> FALSE]
    /\ cancelledUtterances' = Cancelled(utterance, cancelledUtterances)

\* speak(line, handleAiTurnEnd) for turn t
speak(t) ==
    IF ~speechSynthesis \/ voices = 0
    THEN /\ fallbackTimers' = [fallbackTimers EXCEPT ![t] = @ + 1]
         /\ UNCHANGED <<utterance, cancelledUtterances>>
    ELSE /\ fallbackTimers' = fallbackTimers
         /\ utterance' = [turn |-> t, started |-> FALSE]
         /\ cancelledUtterances' = Cancelled(utterance, cancelledUtterances)

\* the 700 ms timer of the AI-turn effect fires
AiTimerFires ==
    /\ aiTimer # NoTimer
    /\ aiTimer' = NoTimer
    /\ speak(aiTimer)
    /\ UNCHANGED <<reactVars, refVars, envVars, scriptCall, analysis, prep,
                   successTimers, appVars, histVars>>

\* the timer speak set when it could not synthesize fires
FallbackTimerFires(t) ==
    /\ fallbackTimers[t] > 0
    /\ fallbackTimers' = [fallbackTimers EXCEPT ![t] = @ - 1]
    /\ handleAiTurnEnd(t, isAiSpeaking, utterance, cancelledUtterances)

\* utterance.onstart
UtteranceStart ==
    /\ utterance # NoUtterance /\ ~utterance.started
    /\ UNCHANGED <<speechFrame, voices, fallbackTimers>>
    /\ IF mounted
       THEN Commit(step, currentTurn, recognitionError, TRUE, FALSE, gameRec,
                   [utterance EXCEPT !.started = TRUE], cancelledUtterances)
       ELSE /\ utterance' = [utterance EXCEPT !.started = TRUE]
            /\ UNCHANGED <<step, currentTurn, recognitionError, isAiSpeaking, mounted,
                           aiTimer, gameRec, pracRec, isAnalyzing, analysis,
                           cancelledUtterances>>

\* utterance.onend
UtteranceEnd ==
    /\ utterance # NoUtterance /\ utterance.started
    /\ UNCHANGED fallbackTimers
    /\ handleAiTurnEnd(utterance.turn, FALSE, NoUtterance, cancelledUtterances)

\* utterance.onerror of the utterance in the queue (synthesis failed)
UtteranceError ==
    /\ utterance # NoUtterance
    /\ UNCHANGED fallbackTimers
    /\ handleAiTurnEnd(utterance.turn, FALSE, NoUtterance, cancelledUtterances)

\* utterance.onerror of an utterance that cancel() removed
CancelledUtteranceError(t) ==
    /\ cancelledUtterances[t] > 0
    /\ UNCHANGED fallbackTimers
    /\ handleAiTurnEnd(t, FALSE, utterance,
                       [cancelledUtterances EXCEPT ![t] = @ - 1])

\* ------------------------------------------------------ the game recognizer
\* what Commit does not assign and no recognizer handler of the game touches
recFrame == <<selectedScene, selectedCharacter, script, error, voices, mistakes,
              practiceWords, currentPracticeWordIndex, practiceStatus,
              practiceTranscript, practiceAttemptResult, speechRecognizer,
              speechSynthesis, scriptCall, fallbackTimers, prep, successTimers,
              onCompleteCalls, appState, scriptReply, pracLog, failedAttempts, extractVars>>

commitVars == <<step, currentTurn, recognitionError, isAiSpeaking, mounted, aiTimer,
                gameRec, utterance, cancelledUtterances, pracRec, isAnalyzing, analysis>>

\* the mic button of step GAME is rendered and enabled
MicButtonEnabled ==
    /\ mounted /\ step = "GAME"
    /\ Len(script) # 0 /\ selectedCharacter # Null /\ selectedScene # Null
    /\ currentTurn < Len(script)
    /\ recognitionError = Null
    /\ IsUserTurn(script, currentTurn, selectedCharacter)
    /\ ~isAiSpeaking

\* startRecognition; throws: start() throws something other than InvalidStateError
startRecognition(throws) ==
    /\ speechRecognizer /\ ~isRecognitionActive
    /\ hasProcessedTurn' = FALSE
    /\ wasStoppedIntentionally' = FALSE
    /\ UNCHANGED <<recFrame, isRecognitionActive, userDialog, userTranscript, transcriptRef>>
    /\ IF gameRec = "idle"
       THEN IF throws
            THEN /\ Commit(step, currentTurn, "Failed to start microphone.", isAiSpeaking,
                           FALSE, gameRec, utterance, cancelledUtterances)
                 /\ UNCHANGED userStopped
            ELSE /\ Commit(step, currentTurn, Null, isAiSpeaking,
                           FALSE, "starting", utterance, cancelledUtterances)
                 /\ userStopped' = FALSE
       ELSE /\ ~throws
            /\ Commit(step, currentTurn, Null, isAiSpeaking,
                      FALSE, gameRec, utterance, cancelledUtterances)
            /\ UNCHANGED userStopped

handleMicButtonClick(throws) ==
    /\ MicButtonEnabled
    /\ IF isRecognitionActive
       THEN /\ ~throws
            /\ wasStoppedIntentionally' = TRUE
            /\ gameRec' = IF speechRecognizer THEN RecStop(gameRec) ELSE gameRec
            /\ userStopped' = (userStopped \/ gameRec # "idle")
            /\ UNCHANGED <<reactVars, hasProcessedTurn, practiceAttemptResult,
                           transcriptRef, speechRecognizer, speechSynthesis, pracRec,
                           flightVars, appVars, scriptReply, pracLog, failedAttempts,
                           extractVars>>
       ELSE startRecognition(throws)

GameRecStart_KeepTranscript ==
    /\ gameRec = "starting"
    /\ IF HandlersAttached
       THEN /\ transcriptRef' = transcriptRef
            /\ userTranscript' = <<>>
            /\ isRecognitionActive' = TRUE
       ELSE UNCHANGED <<transcriptRef, userTranscript, isRecognitionActive>>
    /\ UNCHANGED <<recFrame, userDialog, hasProcessedTurn, wasStoppedIntentionally,
                   userStopped>>
    /\ Commit(step, currentTurn, recognitionError, isAiSpeaking, FALSE, "active",
              utterance, cancelledUtterances)

\* recognizer.onstart -> handleStart
GameRecStart ==
    /\ gameRec = "starting"
    /\ IF HandlersAttached
       THEN /\ transcriptRef' = <<>>
            /\ userTranscript' = <<>>
            /\ isRecognitionActive' = TRUE
       ELSE UNCHANGED <<transcriptRef, userTranscript, isRecognitionActive>>
    /\ UNCHANGED <<recFrame, userDialog, hasProcessedTurn, wasStoppedIntentionally,
                   userStopped>>
    /\ Commit(step, currentTurn, recognitionError, isAiSpeaking, FALSE, "active",
              utterance, cancelledUtterances)

\* recognizer.onresult -> handleResult; tr is the joined transcript of the event
GameRecResult(tr) ==
    /\ gameRec \in {"active", "stopping"}
    /\ IF HandlersAttached /\ ~hasProcessedTurn
       THEN /\ transcriptRef' = tr
            /\ userTranscript' = tr
       ELSE UNCHANGED <<transcriptRef, userTranscript>>
    /\ UNCHANGED <<recFrame, userDialog, hasProcessedTurn, wasStoppedIntentionally,
                   userStopped, isRecognitionActive, commitVars>>

\* `Mic error: "${errorType}".`
MicError(errorType) ==
    CASE errorType = "network" -> "Mic error: \"network\"."
      [] errorType = "not-allowed" -> "Mic error: \"not-allowed\"."
      [] errorType = "service-not-allowed" -> "Mic error: \"service-not-allowed\"."
      [] errorType = "no-speech" -> "Mic error: \"no-speech\"."
      [] errorType = "aborted" -> "Mic error: \"aborted\"."

GameErrorMessage_NeverIgnored(errorType) ==
    IF errorType \in {"not-allowed", "service-not-allowed"}
    THEN "Microphone access denied."
    ELSE MicError(errorType)

\* handleError: the recognitionError it leaves
GameErrorMessage(errorType) ==
    IF errorType \in {"aborted", "no-speech"} THEN recognitionError
    ELSE IF errorType \in {"not-allowed", "service-not-allowed"}
         THEN "Microphone access denied."
         ELSE MicError(errorType)

\* recognizer.onerror -> handleError; the session then ends
GameRecError(errorType) ==
    /\ gameRec \in {"starting", "active", "stopping"}
    /\ UNCHANGED <<recFrame, userDialog, hasProcessedTurn, wasStoppedIntentionally,
                   userStopped, isRecognitionActive, transcriptRef, userTranscript>>
    /\ Commit(step, currentTurn,
              IF HandlersAttached THEN GameErrorMessage(errorType) ELSE recognitionError,
              isAiSpeaking, FALSE, "ending", utterance, cancelledUtterances)

ShouldProcessTurn_AnyEnd == ~hasProcessedTurn

\* the test of handleEnd
ShouldProcessTurn == wasStoppedIntentionally /\ ~hasProcessedTurn

TargetLine_First == script[1].line

\* const targetLine = script[currentTurn].line
TargetLine == script[currentTurn + 1].line

ProcessedStep_Early ==
    IF currentTurn < Len(script) - 2 THEN step ELSE "ANALYZING_PERFORMANCE"

\* processUserTurn: the step it leaves
ProcessedStep ==
    IF currentTurn < Len(script) - 1 THEN step ELSE "ANALYZING_PERFORMANCE"

\* processUserTurn: the turn it leaves
ProcessedTurn ==
    IF currentTurn < Len(script) - 1 THEN currentTurn + 1 ELSE currentTurn

\* processUserTurn(transcript), called by handleEnd
processUserTurn(transcript) ==
    /\ hasProcessedTurn' = TRUE
    /\ userDialog' = Append(userDialog, [target |-> TargetLine, said |-> transcript])
    /\ Commit(ProcessedStep, ProcessedTurn, recognitionError, isAiSpeaking, FALSE,
              "idle", utterance, cancelledUtterances)

\* recognizer.onend -> handleEnd
GameRecEnd ==
    /\ gameRec \in {"active", "stopping", "ending"}
    /\ userStopped' = FALSE
    /\ UNCHANGED <<recFrame, transcriptRef, userTranscript>>
    /\ IF HandlersAttached
       THEN /\ isRecognitionActive' = FALSE
            /\ wasStoppedIntentionally' = FALSE
            /\ IF ShouldProcessTurn
               THEN processUserTurn(Trim(transcriptRef))
               ELSE /\ UNCHANGED <<hasProcessedTurn, userDialog>>
                    /\ Commit(step, currentTurn, recognitionError, isAiSpeaking, FALSE,
                              "idle", utterance, cancelledUtterances)
       ELSE /\ gameRec' = "idle"
            /\ UNCHANGED <<isRecognitionActive, wasStoppedIntentionally,
                           hasProcessedTurn, userDialog, step, currentTurn,
                           recognitionError, isAiSpeaking, mounted, aiTimer, utterance,
                           cancelledUtterances, pracRec, isAnalyzing, analysis>>

\* ---------------------------------------------------- performance analysis
RemoveAt(seq, i) == SubSeq(seq, 1, i - 1) \o SubSeq(seq, i + 1, Len(seq))

analyzeReadingWithAI_AlwaysAsks(spokenText, targetText, reply) ==
    IF reply.ok THEN reply.words ELSE <<>>

\* analyzeReadingWithAI; reply is what the call resolves with when one is made
analyzeReadingWithAI(spokenText, targetText, reply) ==
    IF Trim(spokenText) = <<>> THEN FilterBoolean(Split(targetText))
    ELSE IF reply.ok THEN reply.words ELSE <<>>

AllMistakes_NoSet(allIncorrectWords) ==
    [i \in 1..Len(allIncorrectWords) |->
        [expected |-> allIncorrectWords[i], said |-> <<>>]]

\* [...new Set(allIncorrectWords)].map(word => ({ expected: word, said: '' }))
AllMistakes(allIncorrectWords) ==
    LET ws == Unique(allIncorrectWords)
    IN  [i \in 1..Len(ws) |-> [expected |-> ws[i], said |-> <<>>]]

Expected(ms) == [i \in 1..Len(ms) |-> ms[i].expected]

WordsToPractice_KeepEmpty(ms) == Unique(Expected(ms))

\* [...new Set(mistakes.map(m => m.expected).filter(Boolean))]
WordsToPractice(ms) == Unique(FilterBoolean(Expected(ms)))

AfterAnalysisStep_AlwaysPrep(allMistakes) == "PRACTICE_PREP"

AfterAnalysisStep_NeverPrep(allMistakes) == "COMPLETE"

\* the step analyzeAllDialog sets
AfterAnalysisStep(allMistakes) ==
    IF Len(allMistakes) > 0 THEN "PRACTICE_PREP" ELSE "COMPLETE"

\* what the analysis handlers leave alone
analysisFrame == <<selectedScene, selectedCharacter, script, error, currentTurn,
                   isAiSpeaking, voices, isRecognitionActive, recognitionError,
                   userDialog, userTranscript, practiceWords,
                   currentPracticeWordIndex, practiceStatus, practiceTranscript,
                   refVars, speechRecognizer, speechSynthesis, scriptCall,
                   fallbackTimers, successTimers, histVars>>

\* the end of analyzeAllDialog, and the PRACTICE_PREP effect it triggers:
\* preparePractice up to its first await, or its onComplete(true) when no
\* word is left to practice
FinishAnalysis(i, allIncorrectWords) ==
    LET allMistakes == AllMistakes(allIncorrectWords)
        words == WordsToPractice(allMistakes)
    IN  /\ analysis' = RemoveAt(analysis, i)
        /\ IF ~mounted
           THEN UNCHANGED <<analysisFrame, mistakes, isAnalyzing, step, prep, appVars,
                            aiTimer, utterance, cancelledUtterances, gameRec, pracRec>>
           ELSE IF AfterAnalysisStep(allMistakes) = "PRACTICE_PREP" /\ Len(words) = 0
           THEN /\ OnComplete
                /\ UNCHANGED <<speechRecognizer, speechSynthesis, scriptCall,
                               fallbackTimers, successTimers, prep>>
           ELSE /\ mistakes' = allMistakes
                /\ isAnalyzing' = FALSE
                /\ step' = AfterAnalysisStep(allMistakes)
                /\ prep' = IF step' = "PRACTICE_PREP"
                           THEN Append(prep, [idx |-> 1, words |-> words, data |-> <<>>])
                           ELSE prep
                /\ UNCHANGED <<analysisFrame, appVars, aiTimer, utterance,
                               cancelledUtterances, gameRec, pracRec>>

\* one turn of the loop of analyzeAllDialog: the i-th run in flight gets the
\* incorrect words of its next dialog record
AnalyzeStep(i, reply) ==
    /\ i \in 1..Len(analysis)
    /\ LET run == analysis[i] IN
       IF run.idx > Len(userDialog)
       THEN /\ reply.ok /\ reply.words = <<>>
            /\ FinishAnalysis(i, run.words)
       ELSE LET dialog == userDialog[run.idx]
                words == run.words \o analyzeReadingWithAI(dialog.said, dialog.target, reply)
            IN  /\ (Trim(dialog.said) = <<>>) => (reply.ok /\ reply.words = <<>>)
                /\ IF run.idx < Len(userDialog)
                   THEN /\ analysis' = [analysis EXCEPT ![i] =
                                           [idx |-> run.idx + 1, words |-> words]]
                        /\ UNCHANGED <<analysisFrame, mistakes, isAnalyzing, step,
                                       prep, appVars, aiTimer, utterance,
                                       cancelledUtterances, gameRec, pracRec>>
                   ELSE FinishAnalysis(i, words)

\* ------------------------------------------------------- practice preparation
getPhoneticBreakdown_NoFallback(word, reply) == reply.syllables

\* getPhoneticBreakdown
getPhoneticBreakdown(word, reply) ==
    IF reply.ok THEN reply.syllables ELSE <<word>>

WithPhonemes_KeepAll(data) == data

RECURSIVE WithPhonemes(_)
\* phoneticData.filter(p => p.phonemes.length > 0)
WithPhonemes(data) ==
    IF data = <<>> THEN <<>>
    ELSE IF Len(Head(data).phonemes) > 0
         THEN <<Head(data)>> \o WithPhonemes(Tail(data))
         ELSE WithPhonemes(Tail(data))

PracticeWordsOf_Unfiltered(data) == data

\* the argument of setPracticeWords
PracticeWordsOf(data) == WithPhonemes(data)

\* one turn of the loop of preparePractice, and its end after the last word
PrepStep(i, reply) ==
    /\ i \in 1..Len(prep)
    /\ LET run == prep[i]
           word == run.words[run.idx]
           data == Append(run.data, [word |-> word,
                                     phonemes |-> getPhoneticBreakdown(word, reply)])
       IN  IF run.idx < Len(run.words)
           THEN /\ prep' = [prep EXCEPT ![i] = [run EXCEPT !.idx = @ + 1, !.data = data]]
                /\ UNCHANGED <<practiceWords, currentPracticeWordIndex, practiceStatus,
                               practiceTranscript, step, failedAttempts, extractVars>>
           ELSE /\ prep' = RemoveAt(prep, i)
                /\ IF mounted
                   THEN /\ practiceWords' = PracticeWordsOf(data)
                        /\ currentPracticeWordIndex' = 0
                        /\ practiceStatus' = "IDLE"
                        /\ practiceTranscript' = <<>>
                        /\ step' = "PRACTICE"
                        /\ UNCHANGED extractVars
                        /\ failedAttempts' = 0
                   ELSE UNCHANGED <<practiceWords, currentPracticeWordIndex,
                                    practiceStatus, practiceTranscript, step,
                                    failedAttempts, extractVars>>
    /\ UNCHANGED <<selectedScene, selectedCharacter, script, error, currentTurn,
                   isAiSpeaking, voices, isRecognitionActive, recognitionError,
                   mistakes, isAnalyzing, userDialog, userTranscript>>
    /\ UNCHANGED <<refVars, envVars, scriptCall, aiTimer, fallbackTimers, utterance,
                   cancelledUtterances, analysis, successTimers, appVars,
                   scriptReply, userStopped, pracLog>>

\* ------------------------------------------------------------ practice drill
\* what the practice handlers leave alone
practiceFrame == <<selectedScene, selectedCharacter, script, error, currentTurn,
                   isAiSpeaking, voices, isRecognitionActive, mistakes, isAnalyzing,
                   userDialog, userTranscript, practiceWords, hasProcessedTurn,
                   wasStoppedIntentionally, transcriptRef, speechRecognizer,
                   speechSynthesis, gameRec, scriptCall, aiTimer, fallbackTimers,
                   utterance, cancelledUtterances, analysis, prep, scriptReply,
                   userStopped>>

\* the drill of step PRACTICE is rendered (not the 'No words to practice' screen)
DrillRendered ==
    /\ mounted /\ step = "PRACTICE"
    /\ Len(practiceWords) # 0 /\ currentPracticeWordIndex < Len(practiceWords)

\* what a click on the drill's microphone does when it is not ignored
PracticeMicStarts(throws) ==
    /\ pracRec = "idle" \/ throws
    /\ practiceAttemptResult' = Null
    /\ practiceTranscript' = <<>>
    /\ pracLog' = <<>>
    /\ IF throws
       THEN /\ recognitionError' = "Mic failed to start. Please try again."
            /\ practiceStatus' = "IDLE"
            /\ pracRec' = pracRec
       ELSE /\ practiceStatus' = "LISTENING"
            /\ pracRec' = "listening"
            /\ UNCHANGED recognitionError
    /\ UNCHANGED <<practiceFrame, step, currentPracticeWordIndex, successTimers,
                   appVars, failedAttempts, extractVars>>

\* the handler without its early return
handlePracticeMicClick_NoReturn(throws) ==
    /\ DrillRendered
    /\ PracticeMicStarts(throws)

\* handlePracticeMicClick; throws: recognizer.start() throws
handlePracticeMicClick(throws) ==
    /\ DrillRendered
    /\ IF ~speechRecognizer \/ practiceStatus \in {"LISTENING", "SUCCESS"}
       THEN UNCHANGED vars
       ELSE PracticeMicStarts(throws)

\* practiceWords[currentPracticeWordIndex].word when the handlers see one
CurrentWord ==
    IF Len(practiceWords) > 0 /\ currentPracticeWordIndex < Len(practiceWords)
    THEN practiceWords[currentPracticeWordIndex + 1].word
    ELSE <<>>

AttemptResult_Exact(transcript) ==
    IF Len(practiceWords) > 0 /\ currentPracticeWordIndex < Len(practiceWords)
    THEN IF transcript = practiceWords[currentPracticeWordIndex + 1].word
         THEN "SUCCESS" ELSE "TRY_AGAIN"
    ELSE practiceAttemptResult

\* practiceResultHandlerRef for a non-empty trimmed transcript: the attempt result
AttemptResult(transcript) ==
    IF Len(practiceWords) > 0 /\ currentPracticeWordIndex < Len(practiceWords)
    THEN IF cleanWord(transcript) = cleanWord(practiceWords[currentPracticeWordIndex + 1].word)
         THEN "SUCCESS" ELSE "TRY_AGAIN"
    ELSE practiceAttemptResult

HasResult(log) == \E k \in 1..Len(log) : log[k].type = "result"

\* practice recognizer.onresult
PracRecResult(tr) ==
    /\ pracRec = "listening"
    /\ ~HasResult(pracLog)
    /\ pracLog' = Append(pracLog, [type |-> "result", text |-> tr,
                                   word |-> CurrentWord])
    /\ IF mounted
       THEN IF Trim(tr) = <<>>
            THEN /\ practiceAttemptResult' = "NO_RESULT"
                 /\ UNCHANGED practiceTranscript
            ELSE /\ practiceTranscript' = Trim(tr)
                 /\ practiceAttemptResult' = AttemptResult(Trim(tr))
       ELSE UNCHANGED <<practiceAttemptResult, practiceTranscript>>
    /\ UNCHANGED <<practiceFrame, step, currentPracticeWordIndex, successTimers,
                   appVars, failedAttempts,
                   extractVars, recognitionError, practiceStatus, pracRec>>

\* practice recognizer.onerror
PracRecError(errorType) ==
    /\ pracRec = "listening"
    /\ pracRec' = "ending"
    /\ pracLog' = Append(pracLog, [type |-> "error", text |-> <<>>,
                                   word |-> CurrentWord])
    /\ IF mounted
       THEN /\ recognitionError' =
                 IF errorType \notin {"no-speech", "aborted"} THEN MicError(errorType)
                 ELSE recognitionError
            /\ practiceAttemptResult' = "NO_RESULT"
       ELSE UNCHANGED <<recognitionError, practiceAttemptResult>>
    /\ UNCHANGED <<practiceFrame, step, currentPracticeWordIndex, successTimers,
                   appVars, failedAttempts,
                   extractVars, practiceStatus, practiceTranscript>>

EndStatus_AnyResultSucceeds(result) ==
    IF result \in {"SUCCESS", "TRY_AGAIN"} THEN "SUCCESS" ELSE "IDLE"

EndStatus_NeverSuccess(result) ==
    IF result = "TRY_AGAIN" THEN "TRY_AGAIN" ELSE "IDLE"

\* practiceEndHandlerRef: the status it sets
EndStatus(result) ==
    CASE result = "SUCCESS" -> "SUCCESS"
      [] result = "TRY_AGAIN" -> "TRY_AGAIN"
      [] OTHER -> "IDLE"

\* practice recognizer.onend
PracRecEnd ==
    /\ pracRec \in {"listening", "ending"}
    /\ pracRec' = "idle"
    /\ pracLog' = <<>>
    /\ IF mounted
       THEN /\ practiceStatus' = EndStatus(practiceAttemptResult)
            /\ successTimers' =
                 IF practiceStatus' = "SUCCESS"
                 THEN Append(successTimers, [idx |-> currentPracticeWordIndex,
                                             len |-> Len(practiceWords)])
                 ELSE successTimers
            /\ practiceAttemptResult' = Null
            /\ UNCHANGED extractVars
            /\ failedAttempts' =
                 IF practiceStatus' = "TRY_AGAIN"
                 THEN Min(failedAttempts + 1, MaxFailedAttempts)
                 ELSE failedAttempts
       ELSE UNCHANGED <<practiceStatus, successTimers, practiceAttemptResult,
                        failedAttempts, extractVars>>
    /\ UNCHANGED <<practiceFrame, step, currentPracticeWordIndex, appVars,
                   recognitionError, practiceTranscript>>

successFrame == <<selectedScene, selectedCharacter, script, error, currentTurn,
                  isAiSpeaking, voices, isRecognitionActive, recognitionError,
                  mistakes, isAnalyzing, userDialog, userTranscript, practiceWords,
                  step, refVars, scriptReply, userStopped, pracLog>>

\* the 1500 ms timer of a successful attempt fires
SuccessTimerFires(i) ==
    /\ i \in 1..Len(successTimers)
    /\ successTimers' = RemoveAt(successTimers, i)
    /\ UNCHANGED <<speechRecognizer, speechSynthesis, scriptCall, fallbackTimers,
                   analysis, prep>>
    /\ IF successTimers[i].idx < successTimers[i].len - 1
       THEN /\ IF mounted
               THEN /\ currentPracticeWordIndex' = currentPracticeWordIndex + 1
                    /\ practiceStatus' = "IDLE"
                    /\ practiceTranscript' = <<>>
                    /\ UNCHANGED extractVars
                    /\ failedAttempts' = 0
               ELSE UNCHANGED <<currentPracticeWordIndex, practiceStatus,
                                practiceTranscript, failedAttempts, extractVars>>
            /\ UNCHANGED <<successFrame, appVars, aiTimer, utterance,
                           cancelledUtterances, gameRec, pracRec>>
       ELSE OnComplete

\* the buttons that call onComplete(true): 'Finish Practice' and 'Finish' of
\* step PRACTICE, and the button of step COMPLETE
FinishClick ==
    /\ mounted /\ step \in {"PRACTICE", "COMPLETE"}
    /\ OnComplete
    /\ UNCHANGED <<speechRecognizer, speechSynthesis, scriptCall, fallbackTimers,
                   analysis, prep, successTimers>>

\* ---------------------------------------------------------------- the system
Next ==
    \/ \E scene \in Scenes : handleSceneSelect(scene)
    \/ handleBackToScenes
    \/ onBackToGrades
    \/ \E scene \in Scenes : \E k \in 1..2 :
          handleCharacterSelect(TALKERS_CAVE_SCENES[scene][k])
    \/ \E reply \in ScriptReplies : generateScriptReply(reply)
    \/ loadVoices
    \/ AiTimerFires
    \/ \E t \in Turns : FallbackTimerFires(t)
    \/ UtteranceStart
    \/ UtteranceEnd
    \/ UtteranceError
    \/ \E t \in Turns : CancelledUtteranceError(t)
    \/ \E throws \in BOOLEAN : handleMicButtonClick(throws)
    \/ GameRecStart
    \/ \E tr \in GameTranscripts : GameRecResult(tr)
    \/ \E e \in RecognitionErrors : GameRecError(e)
    \/ GameRecEnd
    \/ \E i \in 1..Len(analysis) : \E reply \in AnalysisReplies : AnalyzeStep(i, reply)
    \/ \E i \in 1..Len(prep) : \E reply \in PhoneticReplies : PrepStep(i, reply)
    \/ \E throws \in BOOLEAN : handlePracticeMicClick(throws)
    \/ \E tr \in PracticeTranscripts : PracRecResult(tr)
    \/ \E e \in RecognitionErrors : PracRecError(e)
    \/ PracRecEnd
    \/ \E i \in 1..Len(successTimers) : SuccessTimerFires(i)
    \/ FinishClick

Spec == Init /\ [][Next]_vars

\* ------------------------------------------------- the App across sessions
\* The App from its construction on, with the game seen through the two
\* callbacks it is given: the state of a game on the screen is left out.
Grades == {1, 2}
Languages == {"en", "hi"}
MaxLevel == 4
MaxGameKey == 3
MaxLeftoverTimers == 1

\* App's render shows the game
GameShown(grade, language, granted, finished) ==
    grade # NoGrade /\ language # Null /\ granted /\ ~finished

\* what the App's handlers leave alone; the game is mounted when shown
appFrame ==
    /\ mounted' = GameShown(userGrade', selectedLanguage', micPermissionGranted',
                            isFinished')
    /\ UNCHANGED <<reactVars, refVars, envVars, scriptCall, aiTimer, fallbackTimers,
                   utterance, cancelledUtterances, analysis, prep, histVars>>

\* App is constructed and no game has been mounted yet
AppConstructed ==
    /\ step = "SCENE" /\ selectedScene = Null /\ selectedCharacter = Null
    /\ script = <<>> /\ error = Null /\ currentTurn = 0 /\ isAiSpeaking = FALSE
    /\ voices = 0 /\ isRecognitionActive = FALSE /\ recognitionError = Null
    /\ mistakes = <<>> /\ isAnalyzing = FALSE /\ userDialog = <<>>
    /\ userTranscript = <<>> /\ practiceWords = <<>>
    /\ currentPracticeWordIndex = 0 /\ practiceStatus = "IDLE"
    /\ practiceTranscript = <<>>
    /\ hasProcessedTurn = FALSE /\ wasStoppedIntentionally = FALSE
    /\ practiceAttemptResult = Null /\ transcriptRef = <<>>
    /\ speechRecognizer = TRUE /\ speechSynthesis = TRUE
    /\ gameRec = "idle" /\ pracRec = "idle"
    /\ scriptCall = NoCall /\ aiTimer = NoTimer
    /\ fallbackTimers = [t \in Turns |-> 0] /\ utterance = NoUtterance
    /\ cancelledUtterances = [t \in Turns |-> 0]
    /\ analysis = <<>> /\ prep = <<>> /\ successTimers = <<>>
    /\ scriptReply = NoReply /\ userStopped = FALSE /\ pracLog = <<>>
    /\ failedAttempts = 0
    /\ mounted = FALSE /\ onCompleteCalls = 0
    /\ userGrade = NoGrade /\ selectedLanguage = Null /\ micPermissionGranted = FALSE
    /\ currentLevel = 1 /\ gameKey = 0 /\ isFinished = FALSE
    /\ permissionQuery = FALSE

AppInit == AppConstructed /\ NoResponse

\* the grade selection screen
SelectGrade(grade) ==
    /\ userGrade = NoGrade
    /\ handleSetGrade(grade)
    /\ onCompleteCalls' = 0
    /\ appFrame /\ UNCHANGED successTimers

\* the language selection screen and its 'back'
SelectLanguage(language) ==
    /\ userGrade # NoGrade /\ selectedLanguage = Null
    /\ handleLanguageSelect(language)
    /\ appFrame /\ UNCHANGED <<onCompleteCalls, successTimers>>

LanguageBack ==
    /\ userGrade # NoGrade /\ selectedLanguage = Null
    /\ userGrade' = NoGrade
    /\ UNCHANGED <<selectedLanguage, micPermissionGranted, currentLevel, gameKey,
                   isFinished>>
    /\ QueryEffect
    /\ appFrame /\ UNCHANGED <<onCompleteCalls, successTimers>>

\* the permission screen and its 'back'
GrantPermission ==
    /\ userGrade # NoGrade /\ selectedLanguage # Null /\ ~micPermissionGranted
    /\ handlePermissionGranted
    /\ appFrame /\ UNCHANGED <<onCompleteCalls, successTimers>>

PermissionBack ==
    /\ userGrade # NoGrade /\ selectedLanguage # Null /\ ~micPermissionGranted
    /\ selectedLanguage' = Null
    /\ UNCHANGED <<userGrade, micPermissionGranted, currentLevel, gameKey, isFinished>>
    /\ QueryEffect
    /\ appFrame /\ UNCHANGED <<onCompleteCalls, successTimers>>

\* navigator.permissions.query answers
PermissionAnswer(granted) ==
    /\ permissionQuery
    /\ permissionQuery' = FALSE
    /\ micPermissionGranted' = (micPermissionGranted \/ granted)
    /\ UNCHANGED <<userGrade, selectedLanguage, currentLevel, gameKey, isFinished>>
    /\ appFrame /\ UNCHANGED <<onCompleteCalls, successTimers>>

\* the button of the level screen
PlayAgain ==
    /\ userGrade # NoGrade /\ selectedLanguage # Null /\ micPermissionGranted
    /\ isFinished
    /\ gameKey < MaxGameKey
    /\ handlePlayAgain
    /\ appFrame /\ UNCHANGED <<onCompleteCalls, successTimers>>

\* the game on the screen calls onBackToGrades
GameGoesBack ==
    /\ mounted
    /\ handleBackToGrades
    /\ appFrame /\ UNCHANGED <<onCompleteCalls, successTimers>>

\* the game on the screen calls onComplete(true); leftover: it does so from
\* 'Finish Practice' while the timer of a success is pending
GameCompletes(leftover) ==
    /\ mounted
    /\ currentLevel < MaxLevel
    /\ leftover => Len(successTimers) < MaxLeftoverTimers
    /\ handleFinish(TRUE)
    /\ onCompleteCalls' = onCompleteCalls + 1
    /\ successTimers' = IF leftover THEN Append(successTimers, [idx |-> 0, len |-> 1])
                        ELSE successTimers
    /\ appFrame

\* the timer of a game that is gone calls onComplete(true)
LeftoverTimerFires ==
    /\ successTimers # <<>>
    /\ currentLevel < MaxLevel
    /\ handleFinish(TRUE)
    /\ onCompleteCalls' = onCompleteCalls + 1
    /\ successTimers' = Tail(successTimers)
    /\ appFrame

AppNext ==
    \/ \E grade \in Grades : SelectGrade(grade)
    \/ \E language \in Languages : SelectLanguage(language)
    \/ LanguageBack
    \/ GrantPermission
    \/ PermissionBack
    \/ \E granted \in BOOLEAN : PermissionAnswer(granted)
    \/ PlayAgain
    \/ GameGoesBack
    \/ \E leftover \in BOOLEAN : GameCompletes(leftover)
    \/ LeftoverTimerFires

AppSpec == AppInit /\ [][AppNext]_vars

\* ------------------------------------------------------ extractJson alone
\* extractJson applied to every text of at most MaxTextLength pieces
MaxTextLength == 5
Texts == UNION { [1..n -> TextPieces] : n \in 0..MaxTextLength }

ExtractInit ==
    /\ AppConstructed
    /\ responseText \in Texts
    /\ extracted = NotCalled

CallExtractJson ==
    /\ extracted = NotCalled
    /\ extracted' = extractJson(responseText)
    /\ UNCHANGED <<reactVars, refVars, envVars, flightVars, appVars, scriptReply,
                   userStopped, pracLog, failedAttempts, responseText>>

ExtractSpec == ExtractInit /\ [][CallExtractJson]_vars

\* ------------------------------------------------------------------ claims
\* a reply that parses to an array of exactly 8 objects, each with a
\* character and a line field
ValidReply(reply) ==
    /\ reply.kind = "array"
    /\ Len(reply.items) = 8
    /\ \A i \in 1..Len(reply.items) :
          /\ reply.items[i].kind = "object"
          /\ "character" \in reply.items[i].has
          /\ "line" \in reply.items[i].has

\* the script holds the items of the reply, line for line
StoresReply(scr, reply) ==
    /\ Len(scr) = Len(reply.items)
    /\ \A i \in 1..Len(scr) :
          /\ scr[i].character = reply.items[i].character
          /\ scr[i].line = reply.items[i].line

\* the pending script-generation call resolves in this step
ScriptCallResolves == scriptCall # NoCall /\ scriptCall' = NoCall

\* C1: when the script-generation call resolves with an array of exactly 8
\* items that each have a character and a line, the script is stored and the
\* game enters step GAME at currentTurn 0 with userDialog and mistakes empty.
C1_ValidScriptStartsGame ==
    [][ (ScriptCallResolves /\ ValidReply(scriptReply')) =>
           /\ step = "LOADING_SCRIPT"
           /\ step' = "GAME"
           /\ StoresReply(script', scriptReply')
           /\ currentTurn' = 0
           /\ userDialog' = <<>>
           /\ mistakes' = <<>> ]_vars

\* a game just started from a valid reply
C1_Witness ==
    /\ mounted /\ step = "GAME" /\ currentTurn = 0
    /\ ValidReply(scriptReply) /\ StoresReply(script, scriptReply)
    /\ userDialog = <<>> /\ mistakes = <<>>
    /\ aiTimer = NoTimer /\ gameRec = "idle" /\ ~isAiSpeaking

\* C2: when the script-generation call fails or resolves with anything but an
\* array of exactly 8 items that each have a character and a line, error is
\* set to a message, step goes back to CHARACTER, the script is not replaced,
\* and step GAME is never held on the strength of such a reply.
C2_InvalidScriptReturnsToCharacter ==
    [][ /\ (ScriptCallResolves /\ ~ValidReply(scriptReply')) =>
              /\ step = "LOADING_SCRIPT"
              /\ step' = "CHARACTER"
              /\ error' # Null
              /\ script' = script
        /\ (mounted' /\ step' = "GAME") => ValidReply(scriptReply') ]_vars

\* back at the character choice with the error of a reply one item short
C2_Witness ==
    /\ mounted /\ step = "CHARACTER" /\ error # Null
    /\ scriptReply.kind = "array" /\ Len(scriptReply.items) = 7
    /\ scriptCall = NoCall

AiCompletionOf(t) ==
    \/ fallbackTimers'[t] < fallbackTimers[t]
    \/ cancelledUtterances'[t] < cancelledUtterances[t]
    \/ /\ utterance # NoUtterance /\ utterance.turn = t
       /\ utterance' = NoUtterance /\ cancelledUtterances' = cancelledUtterances

\* the current turn completes in this step: the user's line is recorded, or
\* the speech of the AI line finishes
CurrentTurnCompletes ==
    IF IsUserTurn(script, currentTurn, selectedCharacter)
    THEN /\ Len(userDialog') = Len(userDialog) + 1
         /\ userDialog'[Len(userDialog')].target = script[currentTurn + 1].line
    ELSE AiCompletionOf(currentTurn)

\* C4: step GAME starts at currentTurn 0; in GAME currentTurn changes only by
\* +1 and only in a step that completes the current turn, and GAME is left
\* only for ANALYZING_PERFORMANCE, in a step that completes the last turn.
C4_TurnByTurn ==
    [][ /\ (mounted' /\ step # "GAME" /\ step' = "GAME") => currentTurn' = 0
        /\ (mounted /\ mounted' /\ step = "GAME") =>
              /\ (currentTurn' # currentTurn) =>
                    /\ currentTurn' = currentTurn + 1
                    /\ CurrentTurnCompletes
              /\ (step' # "GAME") =>
                    /\ step' = "ANALYZING_PERFORMANCE"
                    /\ currentTurn = Len(script) - 1
                    /\ CurrentTurnCompletes ]_vars

\* the texts of the lines of scr spoken by character, in script order
UserLines(scr, character) ==
    LET mine == SelectSeq(scr, LAMBDA l : l.character = character)
    IN  [i \in 1..Len(mine) |-> mine[i].line]

\* C5: in step ANALYZING_PERFORMANCE userDialog holds one record per line of
\* the user's character, in script order, each with that line as its target.
C5_OneRecordPerUserLine ==
    (mounted /\ step = "ANALYZING_PERFORMANCE") =>
        [i \in 1..Len(userDialog) |-> userDialog[i].target]
            = UserLines(script, selectedCharacter)

\* the end event of a session of the game recognizer is handled in this step
GameSessionEnds == gameRec # "idle" /\ gameRec' = "idle"

\* C6: a record is appended to userDialog only by the end event of a session
\* the user stopped with the mic button, one record at a time; the end event
\* of a session the user did not stop leaves userDialog, currentTurn and step
\* as they are.
C6_UserTurnNeedsUserStop ==
    [][ (mounted /\ mounted') =>
           /\ (Len(userDialog') > Len(userDialog)) =>
                 /\ GameSessionEnds
                 /\ userStopped
                 /\ SubSeq(userDialog', 1, Len(userDialog)) = userDialog
                 /\ Len(userDialog') = Len(userDialog) + 1
           /\ (GameSessionEnds /\ ~userStopped) =>
                 /\ userDialog' = userDialog
                 /\ currentTurn' = currentTurn
                 /\ step' = step ]_vars

\* the first user turn was completed, and on the last one a session that
\* heard something has ended without the user stopping it: nothing recorded
C6_Witness ==
    /\ mounted /\ step = "GAME" /\ currentTurn = 7
    /\ IsUserTurn(script, currentTurn, selectedCharacter)
    /\ Len(userDialog) = 1
    /\ gameRec = "idle" /\ ~isRecognitionActive /\ recognitionError = Null
    /\ ~hasProcessedTurn /\ ~wasStoppedIntentionally
    /\ userTranscript # <<>>

\* the end event of a session of the practice recognizer is handled in this step
PracticeAttemptEnds == pracRec # "idle" /\ pracRec' = "idle"

Punctuation == {".", ",", "?", "!", ";", ":", "'", "-"}

\* s without its punctuation marks, in lower case
IgnoringCaseAndPunctuation(s) ==
    SelectSeq(ToLowerCase(Trim(s)), LAMBDA c : c \notin Punctuation)

WithoutFourMarks(s) ==
    SelectSeq(ToLowerCase(Trim(s)), LAMBDA c : c \notin {".", ",", "?", "!"})

C8_FailedAttemptsExhaust ==
    (mounted /\ step = "PRACTICE" /\ DrillRendered) =>
        failedAttempts < MaxFailedAttempts

\* C8 amended: the drill stays on a word until it is matched, however many
\* attempts fail: an attempt that does not end in SUCCESS leaves the word,
\* the index and the step as they are and the mic button usable; SUCCESS is
\* only the end of an attempt whose last event was a transcript matching the
\* word, and the index only ever advances, by one, when the timer of such a
\* success fires.
C8_DrillKeepsWordUntilMatched ==
    [][ (mounted /\ mounted' /\ step = "PRACTICE") =>
           /\ (PracticeAttemptEnds /\ practiceStatus' # "SUCCESS") =>
                 /\ practiceStatus' \in {"TRY_AGAIN", "IDLE"}
                 /\ currentPracticeWordIndex' = currentPracticeWordIndex
                 /\ practiceWords' = practiceWords
                 /\ step' = step
                 /\ successTimers' = successTimers
           /\ (PracticeAttemptEnds /\ practiceStatus' = "SUCCESS") =>
                 /\ Len(pracLog) > 0
                 /\ pracLog[Len(pracLog)].type = "result"
                 /\ WithoutFourMarks(pracLog[Len(pracLog)].text)
                       = WithoutFourMarks(pracLog[Len(pracLog)].word)
           /\ (Len(successTimers') > Len(successTimers)) =>
                 (PracticeAttemptEnds /\ practiceStatus' = "SUCCESS")
           /\ (currentPracticeWordIndex' > currentPracticeWordIndex) =>
                 /\ currentPracticeWordIndex' = currentPracticeWordIndex + 1
                 /\ Len(successTimers') < Len(successTimers) ]_vars

\* the first word is still offered after MaxFailedAttempts wrong attempts
C8_Witness ==
    /\ mounted /\ step = "PRACTICE" /\ DrillRendered
    /\ currentPracticeWordIndex = 0
    /\ failedAttempts = MaxFailedAttempts
    /\ practiceStatus = "TRY_AGAIN" /\ pracRec = "idle"

\* C9: no word is the expected word of more than one entry of mistakes,
\* whichever turns flagged it and by whichever path.
C9_MistakesDeduplicated ==
    \A i, j \in 1..Len(mistakes) :
        i # j => mistakes[i].expected # mistakes[j].expected

\* 'a' was flagged by the AI comparison of the first user line (with an empty
\* string) and again, with 'A', by the empty transcript of the second: it is
\* listed once
C9_Witness ==
    /\ mounted /\ step = "PRACTICE_PREP"
    /\ Len(userDialog) = 2
    /\ userDialog[1].said # <<>> /\ userDialog[2].said = <<>>
    /\ Expected(mistakes) = << <<"a">>, <<>>, <<"A">> >>

\* the words of a list of practice entries
WordsOf(entries) == [i \in 1..Len(entries) |-> entries[i].word]

\* a run of preparePractice finishes in this step
PreparationEnds == Len(prep') < Len(prep)

\* C10 as stated: when preparation ends and PRACTICE is entered, practiceWords
\* has one entry for each missed word of mistakes, in the same order.
C10_EveryMissedWordDrilled ==
    [][ (mounted /\ mounted' /\ PreparationEnds /\ step' = "PRACTICE") =>
           WordsOf(practiceWords') = Expected(mistakes') ]_vars

\* the entries of data that have at least one syllable
Drillable(data) == SelectSeq(data, LAMBDA p : p.phonemes # <<>>)

\* C10 amended: preparation takes the distinct missed words of mistakes that
\* are not the empty string, in order, and pairs each with its syllable list;
\* when it ends PRACTICE is entered with practiceWords holding, in that order,
\* the words whose list is not empty, each with its list; empty-string words
\* and words with an empty list are left out.
C10_DrillableMissedWordsDrilled ==
    [][ mounted' =>
           /\ (Len(prep') > Len(prep)) =>
                 /\ step' = "PRACTICE_PREP"
                 /\ prep'[Len(prep')].words
                       = SelectSeq(Expected(mistakes'), LAMBDA w : w # <<>>)
                 /\ prep'[Len(prep')].data = <<>>
           /\ \A i \in 1..Len(prep') :
                 /\ Len(prep'[i].data) < Len(prep'[i].words)
                 /\ WordsOf(prep'[i].data)
                       = SubSeq(prep'[i].words, 1, Len(prep'[i].data))
           /\ PreparationEnds =>
                 \E i \in 1..Len(prep) :
                    LET run == prep[i]
                        last == practiceWords'[Len(practiceWords')]
                    IN  /\ prep' = RemoveAt(prep, i)
                        /\ step' = "PRACTICE"
                        /\ Len(run.data) = Len(run.words) - 1
                        /\ \/ practiceWords' = Drillable(run.data)
                           \/ /\ Len(practiceWords') = Len(Drillable(run.data)) + 1
                              /\ SubSeq(practiceWords', 1, Len(practiceWords') - 1)
                                    = Drillable(run.data)
                              /\ last.word = run.words[Len(run.words)]
                              /\ last.phonemes # <<>> ]_vars

\* the drill of a game whose missed words were 'a', '' and 'A': 'a' is there
\* with its syllables, '' was never prepared and 'A' got no syllables
C10_Witness ==
    /\ mounted /\ step = "PRACTICE"
    /\ Expected(mistakes) = << <<"a">>, <<>>, <<"A">> >>
    /\ practiceWords = << [word |-> <<"a">>, phonemes |-> << <<"a">>, <<"h">> >>] >>

\* ------------------------------------------------------------------ C11
\* the game shows the microphone-denied message in step GAME
MicrophoneDenied ==
    mounted /\ step = "GAME" /\ recognitionError = "Microphone access denied."

\* this step is a call of speak(): the 700 ms timer of the AI-turn effect fired
SpeakCalled ==
    /\ aiTimer # NoTimer /\ aiTimer' = NoTimer
    /\ \/ \E t \in Turns : fallbackTimers'[t] > fallbackTimers[t]
       \/ /\ utterance' = [turn |-> aiTimer, started |-> FALSE]
          /\ cancelledUtterances' = Cancelled(utterance, cancelledUtterances)

\* C11: once the game recognizer has reported not-allowed in step GAME and
\* the microphone-denied message is set, progress is blocked: while the game
\* stays mounted the step stays GAME, currentTurn does not change, no AI
\* turn is spoken and no userDialog record is appended.
C11_DenialBlocksProgress ==
    [][(MicrophoneDenied /\ mounted')
         => /\ step' = "GAME"
            /\ currentTurn' = currentTurn
            /\ userDialog' = userDialog
            /\ recognitionError' = recognitionError
            /\ ~SpeakCalled]_vars

\* ------------------------------------------------------------------ C12
\* C12: in a browser without speech recognition recognitionError is a
\* message from the first effects on and is never cleared while the game
\* instance lives.
C12_UnsupportedStaysReported ==
    (mounted /\ ~speechRecognizer) => recognitionError # Null

\* without a recognizer the game is in GAME on a line of the user's, where
\* the mic button would be offered
C12_Witness ==
    /\ mounted /\ ~speechRecognizer /\ step = "GAME"
    /\ IsUserTurn(script, currentTurn, selectedCharacter)
    /\ recognitionError = NotSupported

\* ------------------------------------------------------------------ C13
\* the error types both error handlers return on
IgnoredErrors == {"no-speech", "aborted"}

\* C13: an error event of type no-speech or aborted leaves recognitionError
\* as it was, in the game recognizer and in the practice recognizer, and in
\* step GAME it also leaves step, currentTurn and userDialog as they were.
C13_IgnoredErrorsChangeNothing ==
    [][\A e \in IgnoredErrors :
          /\ (GameRecError(e) \/ PracRecError(e))
                => recognitionError' = recognitionError
          /\ ((GameRecError(e) \/ PracRecError(e)) /\ step = "GAME")
                => /\ step' = step
                   /\ currentTurn' = currentTurn
                   /\ userDialog' = userDialog]_vars

\* a session of the game recognizer is ending after an error event and no
\* message is set: the event was of an ignored type
C13_Witness ==
    /\ mounted /\ step = "GAME" /\ gameRec = "ending"
    /\ isRecognitionActive /\ recognitionError = Null

\* ------------------------------------------------------------------ C14
\* this step is a transcript-comparison call of a running analysis that
\* was rejected or answered with something that is not an array of strings
FailedComparison ==
    /\ mounted /\ step = "ANALYZING_PERFORMANCE"
    /\ \E i \in 1..Len(analysis) : AnalyzeStep(i, [ok |-> FALSE, words |-> <<>>])

\* this step is a phonetic-breakdown call of a running preparation that
\* was rejected or answered with something that is not an array of strings
FailedBreakdown ==
    /\ mounted /\ step = "PRACTICE_PREP"
    /\ \E i \in 1..Len(prep) : PrepStep(i, [ok |-> FALSE, syllables |-> <<>>])

CharacterSelected == step = "CHARACTER" /\ step' = "LOADING_SCRIPT"

\* script generation failed and the game is back at the character screen
ScriptFailureReturns == step = "LOADING_SCRIPT" /\ step' = "CHARACTER"

\* C15: no automatic retry of script generation.  A character selection
\* starts one script call, for the selected scene and character, with none
\* in flight; a call is in flight only from a selection to its reply; a
\* failure leaves no call behind, and at the character screen no AI call of
\* any kind is in flight.
C15_NoAutomaticRetry ==
    [][/\ CharacterSelected
          => /\ scriptCall = NoCall
             /\ scriptCall' = [scene |-> selectedScene, character |-> selectedCharacter']
       /\ (scriptCall' # NoCall /\ ~CharacterSelected)
          => /\ scriptCall' = scriptCall
             /\ scriptReply' = scriptReply
       /\ ScriptFailureReturns => scriptCall' = NoCall
       /\ step' = "CHARACTER"
          => /\ scriptCall' = NoCall
             /\ analysis' = <<>> /\ prep' = <<>>]_vars

\* a script call has failed and the character screen shows its message
C15_Witness ==
    /\ mounted /\ step = "CHARACTER" /\ error # Null
    /\ scriptReply # NoReply /\ scriptCall = NoCall

\* ------------------------------------------------------------------ C16
\* the steps from the start of the conversation to the end of the instance
ScriptedSteps ==
    {"GAME", "ANALYZING_PERFORMANCE", "PRACTICE_PREP", "PRACTICE", "COMPLETE"}

\* the lines of the reply the script call resolved with, in its order
ReplyLines ==
    [i \in 1..Len(scriptReply.items) |->
        Line(scriptReply.items[i].character, scriptReply.items[i].line)]

\* C16: from entering GAME to the end of the instance the script is the 8
\* lines of the generated reply in their order, and no event changes it.
C16_ScriptFixed ==
    [][(mounted' /\ step' \in ScriptedSteps)
         => /\ Len(script') = ScriptLength
            /\ script' = ReplyLines'
            /\ step \in ScriptedSteps => script' = script]_vars

\* the conversation is over and the drill runs on words of the script
C16_Witness ==
    /\ mounted /\ step = "PRACTICE" /\ practiceWords # <<>>
    /\ Len(script) = ScriptLength /\ script = ReplyLines

\* ------------------------------------------------------------------ C17
\* a recognizer that is not running a session, or whose session is ending
NotActive(rec) == rec \in {"idle", "ending"}

\* C17: once the game is torn down no utterance is queued for synthesis
\* and neither recognizer is active: a session that was running has been
\* aborted and only its end is still to come.
C17_TeardownCancels ==
    ~mounted => /\ NotActive(gameRec) /\ NotActive(pracRec)
                /\ speechSynthesis => utterance = NoUtterance
                /\ aiTimer = NoTimer

\* the game was torn down with a recognizer session that has not ended yet
\* and an utterance that was removed from the queue
C17_Witness ==
    /\ ~mounted /\ speechSynthesis
    /\ gameRec = "ending" \/ pracRec = "ending"
    /\ \E t \in Turns : cancelledUtterances[t] > 0

\* ------------------------------------------------------------------ C18
\* C18: onComplete is invoked at most once per game instance, also when
\* 'Finish Practice' is clicked while the 1500 ms success timer of the last
\* practice word is pending.
C18_OnCompleteAtMostOnce == onCompleteCalls <= 1

\* ------------------------------------------------------------------ C19
\* C19: a completion callback of an AI turn that fires when the game has
\* moved past that turn (another turn is current, or step GAME was left)
\* does not advance currentTurn and does not change step.
C19_StaleCompletionIgnored ==
    [][\A t \in Turns :
          (mounted /\ AiCompletionOf(t) /\ (step # "GAME" \/ currentTurn # t))
             => /\ currentTurn' = currentTurn
                /\ step' = step]_vars

\* ------------------------------------------------------------------ C20
\* C20: whenever step is GAME, 0 <= currentTurn <= script.length - 1: no
\* event leaves the game in GAME with a turn outside the script, and no
\* completion callback sets one (the render of script[currentTurn] would
\* then have no line).
C20_CurrentTurnInScript ==
    [][/\ (mounted' /\ step' = "GAME") => currentTurn' \in 0..(Len(script') - 1)
       /\ \A t \in Turns :
             (mounted /\ AiCompletionOf(t) /\ AiTurnEndStep(t) = "GAME")
                => AiTurnEndTurn(t) \in 0..(Len(script) - 1)]_vars

\* ------------------------------------------------------------------ C21
\* the step changes the claim lists
StepTransitions ==
    { <<"SCENE", "CHARACTER">>, <<"CHARACTER", "SCENE">>,
      <<"CHARACTER", "LOADING_SCRIPT">>, <<"LOADING_SCRIPT", "GAME">>,
      <<"LOADING_SCRIPT", "CHARACTER">>, <<"GAME", "ANALYZING_PERFORMANCE">>,
      <<"ANALYZING_PERFORMANCE", "PRACTICE_PREP">>,
      <<"ANALYZING_PERFORMANCE", "COMPLETE">>, <<"PRACTICE_PREP", "PRACTICE">> }

\* C21: while the game instance lives, step changes only along the listed
\* transitions; in particular it never returns to GAME or
\* ANALYZING_PERFORMANCE once it has left GAME.
C21_StepTransitions ==
    [][(mounted /\ mounted' /\ step' # step) => <<step, step'>> \in StepTransitions]_vars

\* ------------------------------------------------------------------ C22
\* Timers that are set fire, and the synthesizer delivers the events of the
\* utterances it was given: start, then end or error, and the error of an
\* utterance removed by cancel().
FairSpec ==
    /\ Spec
    /\ WF_vars(AiTimerFires)
    /\ \A t \in Turns : WF_vars(FallbackTimerFires(t))
    /\ WF_vars(UtteranceStart)
    /\ WF_vars(UtteranceEnd \/ UtteranceError)
    /\ \A t \in Turns : WF_vars(CancelledUtteranceError(t))

\* turn t is the current turn, an AI line, and nothing blocks the AI-turn effect
AiTurnWaiting(t) ==
    /\ mounted /\ step = "GAME" /\ currentTurn = t
    /\ ~IsUserTurn(script, t, selectedCharacter)
    /\ recognitionError = Null

\* the game has advanced from turn t
AdvancedFrom(t) ==
    /\ mounted
    /\ IF t < Len(script) - 1 THEN step = "GAME" /\ currentTurn = t + 1
       ELSE step = "ANALYZING_PERFORMANCE"

\* C22: in step GAME with recognitionError null every AI turn eventually
\* completes and the game advances, to the next turn or after the last turn
\* to ANALYZING_PERFORMANCE (unless a recognition error is reported
\* meanwhile), given that timers and utterance callbacks eventually fire.
C22_AiTurnAdvances ==
    \A t \in Turns : AiTurnWaiting(t) ~> (AdvancedFrom(t) \/ recognitionError # Null)

\* ------------------------------------------------------------------ C23
\* the start event of a session of the game recognizer, handlers attached
GameSessionStarts ==
    HandlersAttached /\ gameRec = "starting" /\ gameRec' = "active"

\* a record is appended to userDialog in this step
RecordAppended == Len(userDialog') = Len(userDialog) + 1

\* C23: the transcript recorded for a user turn is the trimmed latest full
\* transcript of the most recent recognition session.  The start of a
\* session empties the accumulated transcript; a result event of a turn not
\* yet processed replaces it by the event's full transcript; nothing else
\* changes it; the record appended at the end of the session holds its
\* trimmed value; and a result event after the turn was processed changes
\* neither userDialog nor the accumulated transcript.
C23_LatestTranscriptRecorded ==
    [][(mounted /\ mounted' /\ step = "GAME") =>
          /\ GameSessionStarts => transcriptRef' = <<>>
          /\ \A tr \in GameTranscripts :
                GameRecResult(tr) =>
                   /\ userDialog' = userDialog
                   /\ transcriptRef' = IF HandlersAttached /\ ~hasProcessedTurn
                                       THEN tr ELSE transcriptRef
          /\ transcriptRef' # transcriptRef
                => \/ GameSessionStarts
                   \/ \E tr \in GameTranscripts : GameRecResult(tr)
          /\ RecordAppended
                => /\ GameSessionEnds
                   /\ transcriptRef' = transcriptRef
                   /\ userDialog'[Len(userDialog')].said = Trim(transcriptRef)]_vars

\* the last record holds the trimmed value of the transcript accumulated in
\* the session that was processed
C23_Witness ==
    /\ mounted /\ step = "GAME" /\ userDialog # <<>>
    /\ transcriptRef = <<"a", " ">>
    /\ userDialog[Len(userDialog)].said = <<"a">>

\* ------------------------------------------------------------------ C24
\* C24: whenever practiceWords is non-empty currentPracticeWordIndex is
\* within 0..practiceWords.length - 1; while the game instance lives the
\* index never decreases, and it increases only by 1 and only after an
\* attempt on the current word ended with status SUCCESS.
C24_WordByWord ==
    [][(mounted /\ mounted') =>
          /\ practiceWords' # <<>>
                => currentPracticeWordIndex' \in 0..(Len(practiceWords') - 1)
          /\ currentPracticeWordIndex' # currentPracticeWordIndex
                => /\ currentPracticeWordIndex' = currentPracticeWordIndex + 1
                   /\ practiceStatus = "SUCCESS"
                   /\ practiceWords' = practiceWords]_vars

\* ------------------------------------------------------------------ C25
\* the last event the practice recognizer delivered in the attempt that ends
LastAttemptEvent == pracLog[Len(pracLog)]

\* C25: when the end event of a practice attempt fires, practiceStatus
\* leaves LISTENING with the outcome decided by the last event of the
\* attempt: a non-matching transcript gives TRY_AGAIN, an empty transcript
\* or any recognition error gives IDLE; with TRY_AGAIN and IDLE
\* currentPracticeWordIndex is unchanged, and the per-attempt result is
\* reset to null.
C25_AttemptOutcome ==
    [][(mounted /\ mounted' /\ step = "PRACTICE" /\ PracticeAttemptEnds) =>
          /\ practiceStatus' # "LISTENING"
          /\ practiceAttemptResult' = Null
          /\ practiceStatus' \in {"TRY_AGAIN", "IDLE"}
                => currentPracticeWordIndex' = currentPracticeWordIndex
          /\ Len(pracLog) > 0 =>
                /\ LastAttemptEvent.type = "error" => practiceStatus' = "IDLE"
                /\ (LastAttemptEvent.type = "result" /\ Trim(LastAttemptEvent.text) = <<>>)
                      => practiceStatus' = "IDLE"
                /\ (/\ LastAttemptEvent.type = "result"
                    /\ Trim(LastAttemptEvent.text) # <<>>
                    /\ cleanWord(Trim(LastAttemptEvent.text))
                          # cleanWord(LastAttemptEvent.word))
                      => practiceStatus' = "TRY_AGAIN"]_vars

\* ------------------------------------------------------------------ C26
\* the 1500 ms timer of a successful attempt fires in this step
SuccessDelayElapses == Len(successTimers') < Len(successTimers)

\* C26: when the success delay elapses and the current word is not the
\* last practice word, the index moves to the next word with practiceStatus
\* IDLE and practiceTranscript empty; when it is the last word,
\* onComplete(true) is invoked.
C26_AfterSuccessDelay ==
    [][(mounted /\ SuccessDelayElapses) =>
          IF currentPracticeWordIndex < Len(practiceWords) - 1
          THEN /\ mounted'
               /\ currentPracticeWordIndex' = currentPracticeWordIndex + 1
               /\ practiceStatus' = "IDLE"
               /\ practiceTranscript' = <<>>
               /\ onCompleteCalls' = onCompleteCalls
          ELSE /\ onCompleteCalls' = onCompleteCalls + 1
               /\ ~mounted']_vars

\* ------------------------------------------------------------------ C27
\* the i-th preparation in flight gets its last breakdown in this step and
\* the drill is set up from it
PreparationFinishes(i, reply) ==
    /\ mounted /\ i \in 1..Len(prep)
    /\ prep[i].idx = Len(prep[i].words)
    /\ PrepStep(i, reply)

\* C27: every entry of practiceWords has a non-empty syllable list.  A word
\* whose breakdown call failed or was malformed enters the drill with the
\* word itself as its only syllable, and a word whose breakdown is an empty
\* list is not placed in practiceWords.
C27_SyllablesNonEmpty ==
    [][/\ \A k \in 1..Len(practiceWords') : Len(practiceWords'[k].phonemes) > 0
       /\ \A i \in 1..Len(prep) :
             LET word == prep[i].words[prep[i].idx] IN
             /\ PreparationFinishes(i, [ok |-> FALSE, syllables |-> <<>>])
                   => \E k \in 1..Len(practiceWords') :
                         practiceWords'[k] = [word |-> word, phonemes |-> <<word>>]
             /\ PreparationFinishes(i, [ok |-> TRUE, syllables |-> <<>>])
                   => \A k \in 1..Len(practiceWords') : practiceWords'[k].word # word]_vars

\* the drill holds a word with its fallback syllable list and a word with a
\* breakdown of two syllables
C27_Witness ==
    /\ mounted /\ step = "PRACTICE" /\ Len(practiceWords) = 2
    /\ \E k \in 1..2 : practiceWords[k].phonemes = <<practiceWords[k].word>>
    /\ \E k \in 1..2 : Len(practiceWords[k].phonemes) = 2

\* ------------------------------------------------------------------ C28
\* a run of analyzeAllDialog finishes in this step
AnalysisFinishes == mounted /\ Len(analysis') < Len(analysis)

\* C28: when performance analysis finishes, step becomes PRACTICE_PREP if
\* and only if the deduplicated mistakes list it stored is non-empty, and
\* COMPLETE otherwise; isAnalyzing is false afterwards in both cases.
C28_AnalysisOutcome ==
    [][(AnalysisFinishes /\ mounted') =>
          /\ step' = IF Len(mistakes') > 0 THEN "PRACTICE_PREP" ELSE "COMPLETE"
          /\ isAnalyzing' = FALSE
          /\ \A j, k \in 1..Len(mistakes') :
                mistakes'[j].expected = mistakes'[k].expected => j = k]_vars

\* an analysis has finished with mistakes and the preparation is under way
C28_Witness ==
    /\ mounted /\ step = "PRACTICE_PREP" /\ ~isAnalyzing
    /\ Len(mistakes) > 0 /\ analysis = <<>> /\ prep # <<>>

\* ------------------------------------------------------------------ C29
\* the words of a text: its maximal runs of characters that are not white space
RECURSIVE WordsAcc(_, _, _)
WordsAcc(s, cur, acc) ==
    IF s = <<>> THEN IF cur = <<>> THEN acc ELSE Append(acc, cur)
    ELSE IF IsWhiteSpace(Head(s))
         THEN WordsAcc(Tail(s), <<>>, IF cur = <<>> THEN acc ELSE Append(acc, cur))
         ELSE WordsAcc(Tail(s), Append(cur, Head(s)), acc)

WhitespaceSeparatedWords(s) == WordsAcc(s, <<>>, <<>>)

\* the non-empty pieces of a text between space characters
SpaceSeparatedPieces(s) == FilterBoolean(Split(s))

\* the user said nothing on the turn of record d
SaidNothing(d) == Trim(d.said) = <<>>

\* the i-th analysis in flight handles a record of a turn on which the user
\* said nothing; flagged is what it must add to its incorrect words
BlankTurnFlags(i, flagged(_)) ==
    LET run == analysis[i] IN
    (/\ mounted /\ run.idx <= Len(userDialog)
     /\ SaidNothing(userDialog[run.idx])
     /\ AnalyzeStep(i, [ok |-> TRUE, words |-> <<>>]))
       => LET words == run.words \o flagged(userDialog[run.idx].target)
          IN  IF run.idx < Len(userDialog)
              THEN analysis'[i].words = words
              ELSE mounted' => mistakes' = AllMistakes(words)

\* C29 as written: for a turn whose transcript is empty or white space the
\* analysis flags every whitespace-separated word of the target line, and a
\* session with such a turn is never in COMPLETE.
C29_BlankTurnFlagsEveryWord ==
    [][/\ \A i \in 1..Len(analysis) : BlankTurnFlags(i, WhitespaceSeparatedWords)
       /\ (mounted' /\ \E k \in 1..Len(userDialog') : SaidNothing(userDialog'[k]))
             => step' # "COMPLETE"]_vars

\* C29 amended: for such a turn the analysis flags every non-empty piece of
\* the target line between space characters (other white space does not
\* separate words), and a session with such a turn on a target line that
\* has such a piece is never in COMPLETE.
C29_BlankTurnFlagsEveryPiece ==
    [][/\ \A i \in 1..Len(analysis) : BlankTurnFlags(i, SpaceSeparatedPieces)
       /\ (mounted' /\ \E k \in 1..Len(userDialog') :
                          /\ SaidNothing(userDialog'[k])
                          /\ SpaceSeparatedPieces(userDialog'[k].target) # <<>>)
             => step' # "COMPLETE"]_vars

\* the user said nothing on the line 'A<tab>a', which was flagged as one
\* word, and the drill is being prepared
C29_Witness ==
    /\ mounted /\ step = "PRACTICE_PREP"
    /\ \E k \in 1..Len(userDialog) :
          /\ SaidNothing(userDialog[k])
          /\ userDialog[k].target = <<"A", "\t", "a">>
    /\ Expected(mistakes) = << <<"A", "\t", "a">> >>

\* ------------------------------------------------------------------ C30
\* the click is one the handler returns from at once
ClickIgnored == ~speechRecognizer \/ practiceStatus \in {"LISTENING", "SUCCESS"}

\* C30: a practice mic click while practiceStatus is LISTENING or SUCCESS, or
\* without a practice recognizer, changes neither practiceStatus,
\* practiceTranscript, the attempt's result nor currentPracticeWordIndex and
\* does not start the recognizer; from IDLE or TRY_AGAIN the click sets
\* LISTENING, and when starting the recognizer throws the status is IDLE
\* again and recognitionError is set.
C30_PracticeMicClick ==
    [][\A throws \in BOOLEAN :
          handlePracticeMicClick(throws) =>
             IF ClickIgnored
             THEN UNCHANGED <<practiceStatus, practiceTranscript,
                              practiceAttemptResult, currentPracticeWordIndex,
                              pracRec>>
             ELSE /\ practiceStatus \in {"IDLE", "TRY_AGAIN"}
                  /\ IF throws
                     THEN /\ practiceStatus' = "IDLE"
                          /\ recognitionError' # Null
                          /\ pracRec' = pracRec
                     ELSE /\ practiceStatus' = "LISTENING"
                          /\ pracRec' = "listening"]_vars

\* a click after a failed attempt could not start the recognizer
C30_Witness ==
    /\ DrillRendered
    /\ practiceStatus = "IDLE"
    /\ failedAttempts > 0
    /\ recognitionError = "Mic failed to start. Please try again."

\* ------------------------------------------------------------------ C31
\* C31: whenever step CHARACTER is entered from SCENE by selecting a scene,
\* error is null; the message of a failed script generation does not survive
\* the way back to the scene selection.
C31_SceneSelectShowsNoError ==
    [][\A scene \in Scenes :
          (step = "SCENE" /\ handleSceneSelect(scene)) => error' = Null]_vars

\* ------------------------------------------------------------------ C32
\* C32: in the App currentLevel is always >= 1 and is 1 plus the number of
\* onComplete calls since the last grade selection; handleFinish adds exactly
\* 1 and sets isFinished, handlePlayAgain clears isFinished and increments
\* gameKey and leaves currentLevel, and handleSetGrade sets currentLevel 1,
\* gameKey 0, isFinished false and clears language and mic permission.
C32_LevelCountsCompletions ==
    [][/\ currentLevel' >= 1
       /\ currentLevel' = 1 + onCompleteCalls'
       /\ onCompleteCalls' = onCompleteCalls + 1
             => /\ currentLevel' = currentLevel + 1
                /\ isFinished'
       /\ PlayAgain
             => /\ ~isFinished'
                /\ gameKey' = gameKey + 1
                /\ currentLevel' = currentLevel
       /\ \A grade \in Grades :
             SelectGrade(grade)
                => /\ currentLevel' = 1 /\ gameKey' = 0 /\ ~isFinished'
                   /\ selectedLanguage' = Null /\ ~micPermissionGranted']_vars

\* a level was finished twice, once by a leftover timer, and the third level
\* is being played
C32_Witness ==
    /\ mounted /\ currentLevel = 3 /\ onCompleteCalls = 2
    /\ gameKey = 1 /\ successTimers = <<>>

\* ------------------------------------------------------------------ C33
\* positions of the fences, of the opening and of the closing brackets
PositionsOf(s, pieces) == {i \in 1..Len(s) : s[i] \in pieces}
First(positions) == CHOOSE i \in positions : \A j \in positions : i <= j
Last(positions) == CHOOSE i \in positions : \A j \in positions : i >= j

\* the text has a code fence: an opening fence and one that closes it
HasFence(s) == Cardinality(PositionsOf(s, {Fence})) >= 2

\* what stands between the two, without the json tag
FencedContent(s) ==
    LET opening == First(PositionsOf(s, {Fence}))
        closing == First(PositionsOf(s, {Fence}) \ {opening})
        inside == SubSeq(s, opening + 1, closing - 1)
    IN  IF inside # <<>> /\ inside[1] = "json" THEN Tail(inside) ELSE inside

\* from the first [ or { to the last ] or }, or the text when there is no
\* such span
SpanOrText(s) ==
    LET opens == PositionsOf(s, {"[", "{"})
        closes == PositionsOf(s, {"]", "}"})
    IN  IF opens # {} /\ closes # {} /\ Last(closes) > First(opens)
        THEN SubSeq(s, First(opens), Last(closes))
        ELSE s

\* the value of a text that parses, null for one that does not
ParsedOrNull(s) ==
    IF JSONparse(s).threw THEN ReturnedNull ELSE Returned(JSONparse(s).value)

\* C33 as written: extractJson never throws; when the text contains a code
\* fence the fenced content is what is parsed, otherwise the span from the
\* first [ or { to the last ] or }, or the whole trimmed text when there is
\* no such span; a parse failure yields null.
C33_FencedContentParsed ==
    extracted # NotCalled =>
        /\ ~extracted.threw
        /\ extracted = ParsedOrNull(IF HasFence(Trim(responseText))
                                    THEN FencedContent(Trim(responseText))
                                    ELSE SpanOrText(Trim(responseText)))

\* the fenced content is white space or nothing
EmptyFence(s) == HasFence(s) /\ Trim(FencedContent(s)) = <<>>

\* C33 amended: extractJson never throws; when the text contains a code fence
\* whose content is not empty the fenced content is what is parsed, otherwise
\* (no fence, or an empty one) the span from the first [ or { to the last ]
\* or }, or the whole trimmed text when there is no such span; a parse
\* failure yields null.
C33_NonEmptyFencedContentParsed ==
    extracted # NotCalled =>
        /\ ~extracted.threw
        /\ extracted = ParsedOrNull(IF /\ HasFence(Trim(responseText))
                                       /\ ~EmptyFence(Trim(responseText))
                                    THEN FencedContent(Trim(responseText))
                                    ELSE SpanOrText(Trim(responseText)))

\* a fenced array with prose around it was extracted
C33_Witness ==
    /\ responseText = <<"json", Fence, "[", "]", Fence>>
    /\ extracted = Returned(<<"[", "]">>)
====
